---- MODULE Spec2Model ----
(***************************************************************************)
(* Model of rs-web-parser (src/src/lib.rs): the shared MergeState          *)
(* (ScrapeState), its priority-driven merge_data, and the orchestrator     *)
(* scrape_product_rust that races eight approach tasks against a soft and  *)
(* a hard deadline.                                                        *)
(*                                                                         *)
(* Conventions                                                             *)
(*   Option<T>     : <<>> is None, <<v>> is Some(v)                        *)
(*   JSON value    : a tuple whose first element is the type tag           *)
(*                   <<"str", s>>  <<"int", n>>  <<"float", n, d>> (n/d)   *)
(*                   <<"arr", <<v1, ..>>>>  <<"obj", m>>  <<"null">>       *)
(*   HashMap / JSON object : a function on the set of its keys             *)
(*   price strings : tuples of one-character strings                       *)
(***************************************************************************)
EXTENDS Integers, Sequences, FiniteSets, TLC

VARIABLES
    product,      \* ScrapeState.product : ProductData
    attribution,  \* ScrapeState.field_attribution : field -> Option<source>
    calls,        \* history of merge_data calls: <<source, payload index>>
    writer,       \* field -> index in calls of the call that last wrote it
    now,          \* monotonic clock, ms since ScrapeState::new
    timeoutMs,    \* overall_timeout_sec, in ms
    pc,           \* position of scrape_product_rust
    elapsed,      \* local `elapsed` of the race loop
    raceResult,   \* race_result: "none" | "Ok" | "Err"
    stopPath,     \* which return of the loop was taken
    aborted,      \* per task: abort() has been called on its handle
    task,         \* per task: position of the approach
    outcome,      \* value returned by scrape_product_rust
    firstComplete, \* time at which the record first became complete, -1 = never
    strongSince,  \* time at which it first was complete with a strong source
    holder,       \* per mutex of ScrapeState: the task holding its guard
    lpc,          \* per task of the lock-level model: its position
    job,          \* per merging task: <<source, payload index>> of its call
    committed,    \* product and attribution as the last finished merge left them
    mergesDone,   \* number of merge_data calls begun
    snapshot,     \* MergeState as it was at the poll's is_complete read
    proc,         \* locals and request log of the routine under study
    input,        \* argument(s) of the pure function under study
    output        \* its result

\* the variables of the lock-level model and of the pure functions
auxVars == <<holder, lpc, job, committed, mergesDone, snapshot, proc, input, output>>

vars == <<product, attribution, calls, writer, now, timeoutMs, pc, elapsed, raceResult, stopPath, aborted, task, outcome,
          firstComplete, strongSince, auxVars>>

(***************************************************************************)
(* Option and JSON helpers                                                 *)
(***************************************************************************)
None == <<>>

Some(v) == <<v>>

IsSome(o) == Len(o) = 1

IsNone(o) == Len(o) = 0

Unwrap(o) == o[1]

\* HashMap::get / serde_json::Value::get on an object
Get(m, k) == IF k \in DOMAIN m THEN Some(m[k]) ELSE None

OrElse(o, alt) == IF IsSome(o) THEN o ELSE alt

as_str(v) == IF v[1] = "str" THEN Some(v[2]) ELSE None

as_array(v) == IF v[1] = "arr" THEN Some(v[2]) ELSE None

\* Option::and_then with one of the accessors above
AndThenStr(o) == IF IsSome(o) THEN as_str(Unwrap(o)) ELSE None

AndThenArray(o) == IF IsSome(o) THEN as_array(Unwrap(o)) ELSE None

\* `f as i32` for a float n/d with |n/d| inside the i32 range: truncation
\* toward zero.  (Saturation of longer literals is in ParseF64AsI32.)
FloatAsI32(n, d) == IF n >= 0 THEN n \div d ELSE -((-n) \div d)

\* `v as i32` for an i64: keeps the low 32 bits, which is the value itself
\* for every integer of this model (all lie inside the i32 range).
I64AsI32(v) == v

(***************************************************************************)
(* parse_price_string (lib.rs 267-314) on tuples of characters             *)
(***************************************************************************)
Digits == <<"0", "1", "2", "3", "4", "5", "6", "7", "8", "9">>

IsDigit(c) == \E i \in 1..10 : Digits[i] = c

DigitVal(c) == (CHOOSE i \in 1..10 : Digits[i] = c) - 1

HasPrefix(s, pat) == Len(s) >= Len(pat) /\ SubSeq(s, 1, Len(pat)) = pat

RECURSIVE Contains(_, _)
Contains(s, pat) ==
    IF Len(s) < Len(pat) THEN FALSE
    ELSE IF HasPrefix(s, pat) THEN TRUE
    ELSE Contains(Tail(s), pat)

\* str::replace(pat, ""): leftmost non-overlapping occurrences, one pass
RECURSIVE Remove(_, _)
Remove(s, pat) ==
    IF Len(s) < Len(pat) THEN s
    ELSE IF HasPrefix(s, pat) THEN Remove(SubSeq(s, Len(pat) + 1, Len(s)), pat)
    ELSE <<Head(s)>> \o Remove(Tail(s), pat)

RECURSIVE TrimStart(_)
TrimStart(s) ==
    IF s # <<>> /\ Head(s) = " " THEN TrimStart(Tail(s)) ELSE s

RECURSIVE TrimEnd(_)
TrimEnd(s) ==
    IF s # <<>> /\ s[Len(s)] = " " THEN TrimEnd(SubSeq(s, 1, Len(s) - 1)) ELSE s

Trim(s) == TrimEnd(TrimStart(s))

RECURSIVE KeepDigits(_)
KeepDigits(s) ==
    IF s = <<>> THEN <<>>
    ELSE IF IsDigit(Head(s)) THEN <<Head(s)>> \o KeepDigits(Tail(s))
    ELSE KeepDigits(Tail(s))

RECURSIVE DigitsValue(_)
DigitsValue(s) ==
    IF s = <<>> THEN 0
    ELSE 10 * DigitsValue(SubSeq(s, 1, Len(s) - 1)) + DigitVal(s[Len(s)])

AllDigits(s) == \A i \in 1..Len(s) : IsDigit(s[i])

\* mutation of CurrencySymbols: '$' is tested before "A$" and "C$"
CurrencySymbols_dollar_first ==
    << <<<<"$">>, "USD">>, <<<<"A", "$">>, "AUD">>, <<<<"C", "$">>, "CAD">>,
       <<<<"<euro>">>, "EUR">>, <<<<"<pound>">>, "GBP">>, <<<<"<yen>">>, "JPY">>,
       <<<<"<rupee>">>, "INR">> >>

\* the currency symbols in the order the code tests them; the non-ASCII
\* characters are written "<euro>", "<pound>", "<yen>", "<rupee>"
CurrencySymbols ==
    << <<<<"A", "$">>, "AUD">>, <<<<"C", "$">>, "CAD">>, <<<<"$">>, "USD">>,
       <<<<"<euro>">>, "EUR">>, <<<<"<pound>">>, "GBP">>, <<<<"<yen>">>, "JPY">>,
       <<<<"<rupee>">>, "INR">> >>

\* index of the first symbol of CurrencySymbols contained in s, 0 if none
DetectCurrency(s) ==
    LET hits == {i \in 1..Len(CurrencySymbols) : Contains(s, CurrencySymbols[i][1])}
    IN  IF hits = {} THEN 0
        ELSE CHOOSE i \in hits : \A j \in hits : i <= j

I32Max == 2147483647

I32Min == -2147483647 - 1

RECURSIVE StripZeros(_)
StripZeros(s) ==
    IF s # <<>> /\ Head(s) = "0" THEN StripZeros(Tail(s)) ELSE s

\* the digit string denotes a number <= i32::MAX = 2147483647
FitsI32(s) ==
    LET z == StripZeros(s)
    IN  \/ Len(z) < 10
        \/ /\ Len(z) = 10
           /\ \/ DigitsValue(SubSeq(z, 1, 9)) < 214748364
              \/ DigitsValue(SubSeq(z, 1, 9)) = 214748364 /\ DigitVal(z[10]) <= 7

\* str::parse::<f64>() followed by `as i32`, for the decimal notation
\* [+-]? digits* [. digits*] with at least one digit; None when s is not a
\* float literal.  (Exponents, "inf" and "nan" need letters that no input
\* of this model contains.)
ParseF64AsI32(s) ==
    LET neg   == s # <<>> /\ Head(s) = "-"
        body  == IF s # <<>> /\ Head(s) \in {"-", "+"} THEN Tail(s) ELSE s
        dots  == {i \in 1..Len(body) : body[i] = "."}
        dot   == IF dots = {} THEN Len(body) + 1
                 ELSE CHOOSE i \in dots : \A j \in dots : i <= j
        ipart == SubSeq(body, 1, dot - 1)
        fpart == SubSeq(body, dot + 1, Len(body))
    IN  IF Cardinality(dots) <= 1 /\ AllDigits(ipart) /\ AllDigits(fpart)
           /\ Len(ipart) + Len(fpart) >= 1
        THEN IF FitsI32(ipart)
             THEN Some(FloatAsI32(IF neg THEN -DigitsValue(ipart)
                                  ELSE DigitsValue(ipart), 1))
             ELSE Some(IF neg THEN I32Min ELSE I32Max)
        ELSE None

\* str::parse::<i32>() of a string of ASCII digits
ParseDigitsI32(s) ==
    IF s = <<>> \/ ~FitsI32(s) THEN None ELSE Some(DigitsValue(s))

parse_price_string(s) ==
    LET was      == <<"W", "a", "s">>
        noWas    == IF Contains(s, was) THEN Remove(s, was) ELSE s
        cur      == DetectCurrency(noWas)
        noSym    == IF cur = 0 THEN noWas ELSE Remove(noWas, CurrencySymbols[cur][1])
        currency == IF cur = 0 THEN None ELSE Some(CurrencySymbols[cur][2])
        price_str == Trim(Remove(noSym, <<",">>))
        amount   == IF Contains(price_str, <<".">>)
                    THEN ParseF64AsI32(price_str)
                    ELSE ParseDigitsI32(KeepDigits(price_str))
    IN  [amount |-> amount, currency |-> OrElse(currency, Some("USD"))]

\* parse_price (lib.rs 242-265)
parse_price(value) ==
    IF value[1] = "obj" THEN
        LET a == Get(value[2], "amount")
            c == Get(value[2], "currency")
        IN  [amount   |-> IF IsSome(a) /\ Unwrap(a)[1] = "int"
                          THEN Some(I64AsI32(Unwrap(a)[2])) ELSE None,
             currency |-> AndThenStr(c)]
    ELSE IF value[1] = "int" THEN
        [amount |-> Some(FloatAsI32(value[2], 1)), currency |-> Some("USD")]
    ELSE IF value[1] = "float" THEN
        [amount |-> Some(FloatAsI32(value[2], value[3])), currency |-> Some("USD")]
    ELSE IF value[1] = "str" THEN parse_price_string(value[2])
    ELSE [amount |-> None, currency |-> None]

(***************************************************************************)
(* ProductData and ScrapeState::merge_data (lib.rs 35-220)                 *)
(***************************************************************************)
Fields ==
    {"product_name", "brand", "price", "image_urls", "garment_type", "availability"}

\* ProductData::default()
DefaultProduct ==
    [product_name |-> None, brand |-> None, price |-> None, image_urls |-> <<>>,
     garment_type |-> None, availability |-> None]

\* HashMap::new() for field_attribution: no field has an entry
EmptyAttribution == [f \in Fields |-> None]

\* p.price.as_ref().and_then(|p| p.amount)
PriceAmount(p) == IF IsSome(p.price) THEN Unwrap(p.price).amount ELSE None

\* mutation of is_complete: the image list is not looked at
is_complete_without_images(p) ==
    /\ IsSome(p.product_name)
    /\ IsSome(p.brand)
    /\ IsSome(PriceAmount(p))
    /\ IsSome(p.garment_type)

\* ProductData::is_complete
is_complete(p) ==
    /\ IsSome(p.product_name)
    /\ IsSome(p.brand)
    /\ IsSome(PriceAmount(p))
    /\ p.image_urls # <<>>
    /\ IsSome(p.garment_type)

\* ProductData::missing_fields
missing_fields(p) ==
    (IF IsNone(p.product_name) THEN <<"product_name">> ELSE <<>>)
    \o (IF IsNone(p.brand) THEN <<"brand">> ELSE <<>>)
    \o (IF IsNone(PriceAmount(p)) THEN <<"price">> ELSE <<>>)
    \o (IF p.image_urls = <<>> THEN <<"image_urls">> ELSE <<>>)
    \o (IF IsNone(p.garment_type) THEN <<"garment_type">> ELSE <<>>)

StrongSources ==
    {"curlcffi_gemini", "curlcffi_gemini_proxy", "requests_gemini", "cloudflare_gemini"}

source_priority(src) ==
    IF src \in StrongSources THEN 0
    ELSE IF src = "gemini_classification" THEN 1
    ELSE IF src = "serpapi_google" THEN 2
    ELSE IF src = "gemini_fast" THEN 3
    ELSE IF src \in {"serpapi_images_url", "serpapi_images_title"} THEN 4
    ELSE 5

\* mutation of should_override_field: an equal tier overrides too
should_override_field_le(field, source, attr, is_empty) ==
    IF is_empty THEN TRUE
    ELSE IF IsSome(attr[field])
         THEN source_priority(source) <= source_priority(Unwrap(attr[field]))
         ELSE FALSE

\* mutation of should_override_field: the priority comparison is inverted
should_override_field_inverted(field, source, attr, is_empty) ==
    IF is_empty THEN TRUE
    ELSE IF IsSome(attr[field])
         THEN source_priority(source) > source_priority(Unwrap(attr[field]))
         ELSE FALSE

should_override_field(field, source, attr, is_empty) ==
    IF is_empty THEN TRUE
    ELSE IF IsSome(attr[field])
         THEN source_priority(source) < source_priority(Unwrap(attr[field]))
         ELSE FALSE

\* ScrapeState::has_strong_source
has_strong_source(attr) ==
    \E f \in Fields : IsSome(attr[f]) /\ Unwrap(attr[f]) \in StrongSources

\* The state threaded through one merge_data call: the two locked maps and
\* the local merged_fields.
\* mutation of WriteField: the attribution entry is inserted only when the
\* field has none yet (entry().or_insert instead of insert)
WriteField_or_insert(st, field, value, source) ==
    [product       |-> [st.product EXCEPT ![field] = value],
     attribution   |-> [st.attribution EXCEPT
                           ![field] = IF IsSome(@) THEN @ ELSE Some(source)],
     merged_fields |-> Append(st.merged_fields, field)]

\* Writing `value` to `field`: the three statements of every `if` body.
WriteField(st, field, value, source) ==
    [product       |-> [st.product EXCEPT ![field] = value],
     attribution   |-> [st.attribution EXCEPT ![field] = Some(source)],
     merged_fields |-> Append(st.merged_fields, field)]

\* product_name (lib.rs 132-145)
MergeProductName(st, incoming, source) ==
    LET name == AndThenStr(OrElse(OrElse(Get(incoming, "product_name"),
                                         Get(incoming, "name")),
                                  Get(incoming, "title")))
    IN  IF IsSome(name)
           /\ should_override_field("product_name", source, st.attribution,
                                    IsNone(st.product.product_name))
        THEN WriteField(st, "product_name", Some(Unwrap(name)), source)
        ELSE st

\* brand (lib.rs 147-155)
MergeBrand(st, incoming, source) ==
    LET brand == AndThenStr(Get(incoming, "brand"))
    IN  IF IsSome(brand)
           /\ should_override_field("brand", source, st.attribution,
                                    IsNone(st.product.brand))
        THEN WriteField(st, "brand", Some(Unwrap(brand)), source)
        ELSE st

\* mutation of MergePrice: the parsed price is written whether or not it
\* has an amount
MergePrice_no_amount_test(st, incoming, source) ==
    LET price_val == Get(incoming, "price")
    IN  IF IsNone(price_val) THEN st
        ELSE LET parsed == parse_price(Unwrap(price_val))
             IN  IF should_override_field("price", source, st.attribution,
                                          IsNone(PriceAmount(st.product)))
                 THEN WriteField(st, "price", Some(parsed), source)
                 ELSE st

\* price (lib.rs 157-168)
MergePrice(st, incoming, source) ==
    LET price_val == Get(incoming, "price")
    IN  IF IsNone(price_val) THEN st
        ELSE LET parsed == parse_price(Unwrap(price_val))
             IN  IF IsSome(parsed.amount)
                    /\ should_override_field("price", source, st.attribution,
                                             IsNone(PriceAmount(st.product)))
                 THEN WriteField(st, "price", Some(parsed), source)
                 ELSE st

\* images.iter().filter_map(|v| v.as_str().map(String::from)).collect()
RECURSIVE FilterStrings(_)
FilterStrings(arr) ==
    IF arr = <<>> THEN <<>>
    ELSE (IF IsSome(as_str(Head(arr))) THEN <<Unwrap(as_str(Head(arr)))>> ELSE <<>>)
         \o FilterStrings(Tail(arr))

\* mutation of MergeImageUrls: an equally long list always replaces the
\* current one (>= instead of >)
MergeImageUrls_ge(st, incoming, source) ==
    LET images == AndThenArray(OrElse(Get(incoming, "image_urls"),
                                      Get(incoming, "images")))
    IN  IF IsNone(images) THEN st
        ELSE LET urls == FilterStrings(Unwrap(images))
             IN  IF Len(urls) >= Len(st.product.image_urls)
                 THEN WriteField(st, "image_urls", urls, source)
                 ELSE st

\* mutation of MergeImageUrls: a stronger tier replaces the list whatever
\* the lengths are
MergeImageUrls_on_override(st, incoming, source) ==
    LET images == AndThenArray(OrElse(Get(incoming, "image_urls"),
                                      Get(incoming, "images")))
    IN  IF IsNone(images) THEN st
        ELSE LET urls == FilterStrings(Unwrap(images))
                 is_empty == st.product.image_urls = <<>>
             IN  IF \/ Len(urls) > Len(st.product.image_urls)
                    \/ should_override_field("image_urls", source,
                                             st.attribution, is_empty)
                 THEN WriteField(st, "image_urls", urls, source)
                 ELSE st

\* mutation of MergeImageUrls: the override rule is tested first, so that a
\* longer list from a weaker tier does not replace the current one
MergeImageUrls_priority_first(st, incoming, source) ==
    LET images == AndThenArray(OrElse(Get(incoming, "image_urls"),
                                      Get(incoming, "images")))
    IN  IF IsNone(images) THEN st
        ELSE LET urls == FilterStrings(Unwrap(images))
                 is_empty == st.product.image_urls = <<>>
             IN  IF /\ Len(urls) >= Len(st.product.image_urls)
                    /\ should_override_field("image_urls", source,
                                             st.attribution, is_empty)
                 THEN WriteField(st, "image_urls", urls, source)
                 ELSE st

\* image_urls (lib.rs 170-191)
MergeImageUrls(st, incoming, source) ==
    LET images == AndThenArray(OrElse(Get(incoming, "image_urls"),
                                      Get(incoming, "images")))
    IN  IF IsNone(images) THEN st
        ELSE LET urls == FilterStrings(Unwrap(images))
                 is_empty == st.product.image_urls = <<>>
                 should_take ==
                     \/ Len(urls) > Len(st.product.image_urls)
                     \/ /\ Len(urls) = Len(st.product.image_urls)
                        /\ should_override_field("image_urls", source,
                                                 st.attribution, is_empty)
             IN  IF should_take
                 THEN WriteField(st, "image_urls", urls, source)
                 ELSE st

\* garment_type (lib.rs 193-201)
MergeGarmentType(st, incoming, source) ==
    LET gtype == AndThenStr(Get(incoming, "garment_type"))
    IN  IF IsSome(gtype)
           /\ should_override_field("garment_type", source, st.attribution,
                                    IsNone(st.product.garment_type))
        THEN WriteField(st, "garment_type", Some(Unwrap(gtype)), source)
        ELSE st

\* availability (lib.rs 203-211)
MergeAvailability(st, incoming, source) ==
    LET status == AndThenStr(Get(incoming, "availability"))
    IN  IF IsSome(status)
           /\ should_override_field("availability", source, st.attribution,
                                    IsNone(st.product.availability))
        THEN WriteField(st, "availability", Some(Unwrap(status)), source)
        ELSE st

\* ScrapeState::merge_data: both locks are held for the whole body and the
\* body has no await, so the call is one step.  The result carries the new
\* product, the new attribution and the local merged_fields.
merge_data(prod, attr, incoming, source) ==
    LET s0 == [product |-> prod, attribution |-> attr, merged_fields |-> <<>>]
        s1 == MergeProductName(s0, incoming, source)
        s2 == MergeBrand(s1, incoming, source)
        s3 == MergePrice(s2, incoming, source)
        s4 == MergeImageUrls(s3, incoming, source)
        s5 == MergeGarmentType(s4, incoming, source)
    IN  MergeAvailability(s5, incoming, source)

(***************************************************************************)
(* Inputs                                                                  *)
(***************************************************************************)
Str(s) == <<"str", s>>

Arr(a) == <<"arr", a>>

Null == <<"null">>

\* "$45.00"
Price45 == <<"$", "4", "5", ".", "0", "0">>

\* "Was A$1,299.50"
PriceWasAud == <<"W", "a", "s", " ", "A", "$", "1", ",", "2", "9", "9", ".", "5", "0">>

\* "call us": a price string without an amount
PriceNoAmount == <<"c", "a", "l", "l", " ", "u", "s">>

\* Payloads handed to merge_data in the merge-only specification.  Every
\* payload carries values of its own, so that the value of a field tells
\* which payload supplied it.
PayloadPool ==
    << \* 1: a full extraction result
       ("product_name" :> Str("Linen Shirt") @@ "brand" :> Str("Acme")
        @@ "price" :> Str(Price45) @@ "garment_type" :> Str("upper")
        @@ "image_urls" :> Arr(<<Str("a.jpg"), Str("b.jpg")>>)),
       \* 2: name under the key "name", numeric price, list under "images"
       ("name" :> Str("Shirt B") @@ "brand" :> Str("Bolt")
        @@ "price" :> <<"float", 25, 2>> @@ "garment_type" :> Str("other")
        @@ "images" :> Arr(<<Str("c.jpg"), Str("d.jpg")>>)
        @@ "availability" :> Str("in_stock")),
       \* 3: product_name present but not a string (hides "title"), a price
       \*    without amount, a list with a repeated and an empty URL
       ("product_name" :> Null @@ "title" :> Str("Title C")
        @@ "price" :> Str(PriceNoAmount)
        @@ "image_urls" :> Arr(<<Str("e.jpg"), Str("e.jpg"), Str("")>>)),
       \* 4: empty list, price record, name under "title"
       ("title" :> Str("Title D")
        @@ "price" :> <<"obj", ("amount" :> <<"int", 30>> @@ "currency" :> Str("EUR"))>>
        @@ "garment_type" :> Str("shoes") @@ "image_urls" :> Arr(<<>>)
        @@ "availability" :> Str("limited")),
       \* 5: list with a non-string element, brand not a string
       ("brand" :> <<"int", 7>> @@ "price" :> Str(PriceWasAud)
        @@ "images" :> Arr(<<<<"int", 7>>, Str("f.jpg")>>)
        @@ "garment_type" :> Str("unsupported")) >>

\* Source tags of the merge-only specification: two of tier 0, one of each
\* of the tiers 1 and 2, and one unknown tag (tier 5).
MergeSources ==
    {"curlcffi_gemini", "requests_gemini", "gemini_classification",
     "serpapi_google", "manual"}

MaxMerges == 3

(***************************************************************************)
(* State                                                                   *)
(***************************************************************************)
TaskNames ==
    <<"gemini_fast", "curlcffi_gemini", "curlcffi_gemini_proxy", "requests_gemini",
      "cloudflare_gemini", "serpapi_google", "serpapi_images_url",
      "serpapi_images_title">>

Tasks == {TaskNames[i] : i \in 1..Len(TaskNames)}

\* the 100 ms of the loop's sleep
PollMs == 100

\* the 5000 ms after which a complete record is accepted without a strong source
SoftDeadlineMs == 5000

MaxTimeoutMs == 5300

\* values of overall_timeout_sec (in ms) the caller passes
TimeoutChoices == {300, MaxTimeoutMs}

\* tasks of the lock-level model: two tasks inside merge_data, the race
\* loop of scrape_product_rust, the wait loop of
\* approach_serpapi_images_title
Mergers == {"m1", "m2"}

Readers == {"poll", "title"}

LockProcs == Mergers \cup Readers

\* ScrapeState::new: both mutexes free, no merge begun
LockIdle ==
    /\ holder = [product |-> "none", field_attribution |-> "none"]
    /\ lpc = [p \in LockProcs |-> "idle"]
    /\ job = [m \in Mergers |-> <<"", 0>>]
    /\ committed = [product |-> DefaultProduct, attribution |-> EmptyAttribution]
    /\ mergesDone = 0
    /\ snapshot = [product |-> DefaultProduct, attribution |-> EmptyAttribution]

\* no pure function is being applied
\* no routine is under study
ProcIdle == [routine |-> "none"]

FnIdle ==
    /\ proc = ProcIdle
    /\ input = <<>>
    /\ output = [fn |-> "none", value |-> <<>>]

\* scrape_product_rust before its first statement, with a fresh ScrapeState
CoreInit ==
    /\ product = DefaultProduct
    /\ attribution = EmptyAttribution
    /\ calls = <<>>
    /\ writer = [f \in Fields |-> 0]
    /\ now = 0
    /\ pc = "start"
    /\ elapsed = 0
    /\ raceResult = "none"
    /\ stopPath = "none"
    /\ aborted = [t \in Tasks |-> FALSE]
    /\ task = [t \in Tasks |-> "unspawned"]
    /\ outcome = [kind |-> "none", record |-> DefaultProduct]
    /\ firstComplete = -1
    /\ strongSince = -1

Init ==
    /\ CoreInit
    /\ timeoutMs \in TimeoutChoices
    /\ LockIdle
    /\ FnIdle

orchVars == <<now, timeoutMs, pc, elapsed, raceResult, stopPath,
              aborted, task, outcome, firstComplete, strongSince>>

(***************************************************************************)
(* Merge-only specification: merge_data called with any source tag and     *)
(* any payload, in any order.                                              *)
(***************************************************************************)
MergeCall(source, i) ==
    /\ Len(calls) < MaxMerges
    /\ \E r \in {merge_data(product, attribution, PayloadPool[i], source)} :
           /\ product' = r.product
           /\ attribution' = r.attribution
           /\ calls' = Append(calls, <<source, i>>)
           /\ writer' = [f \in Fields |->
                           IF \E k \in 1..Len(r.merged_fields) : r.merged_fields[k] = f
                           THEN Len(calls) + 1 ELSE writer[f]]
    /\ UNCHANGED orchVars

    /\ UNCHANGED auxVars
NextMerge == \E source \in MergeSources, i \in 1..Len(PayloadPool) : MergeCall(source, i)

InitMerge == Init /\ timeoutMs = MaxTimeoutMs

SpecMerge == InitMerge /\ [][NextMerge]_vars

(***************************************************************************)
(* Properties of merge_data                                                *)
(***************************************************************************)
CallSource(k) == calls[k][1]

CallTier(k) == source_priority(CallSource(k))

\* The value a payload supplies for a field, as the record stores it; None
\* when the payload has no usable value for the field.
UsableValue(incoming, f) ==
    IF f = "product_name" THEN
        LET n == AndThenStr(OrElse(OrElse(Get(incoming, "product_name"),
                                          Get(incoming, "name")),
                                   Get(incoming, "title")))
        IN  IF IsSome(n) THEN Some(n) ELSE None
    ELSE IF f = "price" THEN
        LET v == Get(incoming, "price")
        IN  IF IsSome(v) /\ IsSome(parse_price(Unwrap(v)).amount)
            THEN Some(Some(parse_price(Unwrap(v)))) ELSE None
    ELSE IF f = "image_urls" THEN
        LET a == AndThenArray(OrElse(Get(incoming, "image_urls"),
                                     Get(incoming, "images")))
        IN  IF IsSome(a) THEN Some(FilterStrings(Unwrap(a))) ELSE None
    ELSE
        LET v == AndThenStr(Get(incoming, f))
        IN  IF IsSome(v) THEN Some(v) ELSE None

\* UsableValue of every payload of the pool, tabulated
PoolUsable ==
    [i \in 1..Len(PayloadPool) |-> [f \in Fields |-> UsableValue(PayloadPool[i], f)]]

\* the value the k-th call's payload supplies for field f
CallValue(k, f) == PoolUsable[calls[k][2]][f]

\* C1: every field that has an attribution entry is attributed to the
\* source of the merge_data call that wrote the field's current value: the
\* entry names the source of the last call that wrote the field, and the
\* field holds the value that call's payload supplies.
C1_AttributionIsWriter ==
    \A f \in Fields :
        IsSome(attribution[f]) =>
            /\ writer[f] \in 1..Len(calls)
            /\ attribution[f] = Some(CallSource(writer[f]))
            /\ Some(product[f]) = CallValue(writer[f], f)

\* a field overwritten by the second call next to one kept from the first
C1_Witness ==
    /\ Len(calls) = 3
    /\ writer["product_name"] = 2
    /\ writer["image_urls"] = 1
    /\ writer["price"] = 3
    /\ attribution["product_name"] # attribution["image_urls"]

PriorityFields == Fields \ {"image_urls"}

DistinctTiers ==
    \A j, k \in 1..Len(calls) : j # k => CallTier(j) # CallTier(k)

Suppliers(f) == {k \in 1..Len(calls) : IsSome(CallValue(k, f))}

Strongest(f) ==
    CHOOSE k \in Suppliers(f) : \A j \in Suppliers(f) : CallTier(k) <= CallTier(j)

EmptyValue(f) == IF f = "image_urls" THEN <<>> ELSE None

\* C2: when the merged calls come from pairwise different priority tiers,
\* each of product_name, brand, price, garment_type and availability holds
\* the value of, and is attributed to, the strongest-tier call that supplied
\* a usable value for it, whatever the order in which the calls arrived.
C2_PriorityDominates ==
    DistinctTiers =>
        \A f \in PriorityFields :
            IF Suppliers(f) = {}
            THEN product[f] = EmptyValue(f) /\ IsNone(attribution[f])
            ELSE /\ Some(product[f]) = CallValue(Strongest(f), f)
                 /\ attribution[f] = Some(CallSource(Strongest(f)))

\* three calls of different tiers all supplying a name, the strongest
\* arriving second; the brand comes from the third call, which is stronger
\* than the first
C2_Witness ==
    /\ Len(calls) = 3
    /\ DistinctTiers
    /\ Cardinality(Suppliers("product_name")) = 3
    /\ Strongest("product_name") = 2
    /\ Strongest("brand") = 3

ImageCalls == Suppliers("image_urls")

CallUrls(k) == Unwrap(CallValue(k, "image_urls"))

MaxLenCalls ==
    {k \in ImageCalls : \A j \in ImageCalls : Len(CallUrls(k)) >= Len(CallUrls(j))}

ImageWinner ==
    CHOOSE k \in MaxLenCalls :
        \A j \in MaxLenCalls :
            \/ CallTier(k) < CallTier(j)
            \/ CallTier(k) = CallTier(j) /\ k <= j

\* C3: image_urls is the list of a merged call of maximal list length, and
\* among the calls of that length the one of the strongest tier, the
\* earliest of them when tiers are equal.
C3_LongestImageListWins ==
    ImageCalls # {} => product.image_urls = CallUrls(ImageWinner)

\* three equally long lists, the winner arrived second: a weaker tier came
\* first and an equal tier came later
C3_Witness ==
    /\ Len(calls) = 3
    /\ Cardinality(MaxLenCalls) = 3
    /\ ImageWinner = 2
    /\ CallTier(1) > CallTier(2)
    /\ CallTier(3) = CallTier(2)
    /\ CallUrls(3) # CallUrls(2)
    /\ Len(product.image_urls) = 2

\* C4: image_urls contains no two equal strings and no empty string.
C4_NoDuplicateNoEmptyImage ==
    /\ \A i, j \in 1..Len(product.image_urls) :
           i # j => product.image_urls[i] # product.image_urls[j]
    /\ \A i \in 1..Len(product.image_urls) : product.image_urls[i] # ""

(***************************************************************************)
(* Approaches (lib.rs 1100-1299) as seen by MergeState: what each one      *)
(* hands to merge_data, and under which source tag.                        *)
(***************************************************************************)
\* Results of call_gemini_for_product_extraction (lib.rs 596-616): any
\* subset of product_name, brand, price, garment_type, image_urls.
ExtractionResults ==
    << ("product_name" :> Str("Linen Shirt") @@ "brand" :> Str("Acme")
        @@ "price" :> Str(Price45) @@ "garment_type" :> Str("upper")
        @@ "image_urls" :> Arr(<<Str("a.jpg"), Str("b.jpg")>>)),
       ("product_name" :> Str("Linen Shirt") @@ "brand" :> Str("Acme")
        @@ "price" :> Str(Price45)
        @@ "image_urls" :> Arr(<<Str("a.jpg")>>)) >>

\* garment_type strings an LLM answer may carry: the six of the schema and
\* one outside it
GarmentValues ==
    <<"upper", "lower", "full_body", "shoes", "other", "unsupported", "hat">>

\* Results of call_gemini_for_fast_classification (lib.rs 747-755)
FastResults ==
    [i \in 1..Len(GarmentValues) |-> ("garment_type" :> Str(GarmentValues[i]))]

\* What approach_serpapi_google builds from the first shopping result
\* (lib.rs 1193-1199): title and price, or a price only
ShoppingResults ==
    << ("product_name" :> Str("Linen Shirt - Acme") @@ "price" :> <<"float", 91, 2>>),
       ("price" :> Str(Price45)) >>

\* Results of call_gemini_from_serpapi (lib.rs 863-881)
ClassificationResults ==
    << ("name" :> Str("Linen Shirt") @@ "brand" :> Str("Acme")
        @@ "garment_type" :> Str("upper")),
       ("brand" :> Str("Acme")) >>

\* The one-image payloads of the two image searches (lib.rs 1234-1236,
\* 1280-1283)
ImageUrlResults == << ("image_urls" :> Arr(<<Str("x.jpg")>>)) >>

ImageTitleResults == << ("image_urls" :> Arr(<<Str("y.jpg")>>)) >>

ApproachResults(t) ==
    IF t \in StrongSources THEN ExtractionResults
    ELSE IF t = "gemini_fast" THEN FastResults
    ELSE IF t = "serpapi_google" THEN ShoppingResults
    ELSE IF t = "serpapi_images_url" THEN ImageUrlResults
    ELSE ImageTitleResults

\* Positions of an approach task
\*   "unspawned"  not yet spawned
\*   "wait"       serpapi_images_title polling MergeState for product_name
\*   "io"         suspended in (or being polled around) its request
\*   "io2"        serpapi_google suspended in the classification call
\*   "run", "run2" was being polled when abort() was called: runs on to its
\*                next await
\*   "done"       returned
\*   "cancelled"  dropped by the abort
Suspended == {"wait", "io", "io2"}

\* number of tasks that are in the middle of a poll when abort() reaches them
MaxLate == 1

\* number of approaches whose request completes (with a result or a
\* failure) before the orchestrator returns; the others stay suspended in
\* their request until they are aborted
MaxResponders == 2

Responded == {t \in Tasks : task[t] \in {"io2", "run2", "done"}}

MayRespond == Cardinality(Responded) < MaxResponders

InLoop == pc \in {"loop", "strong", "sleep"}

\* The approaches run from the spawn until the runtime is dropped on
\* return.  (No approach step is taken between the end of a sleep and the
\* is_complete call that follows it: such a step is the same as one at
\* the end of the sleep.)
Running == pc \in {"strong", "sleep", "abort", "final"}

\* ghost bookkeeping after a merge: when the record first became complete,
\* and when it first was complete with a strong source
Observe(p, a) ==
    /\ firstComplete' = IF firstComplete = -1 /\ is_complete(p) THEN now
                        ELSE firstComplete
    /\ strongSince' = IF strongSince = -1 /\ is_complete(p) /\ has_strong_source(a)
                      THEN now ELSE strongSince

\* state.merge_data(&payload, source).await inside an approach
DoMerge(payload, source) ==
    \E r \in {merge_data(product, attribution, payload, source)} :
        /\ product' = r.product
        /\ attribution' = r.attribution
        /\ Observe(r.product, r.attribution)

\* approach_gemini_fast, approach_*_gemini, approach_serpapi_images_url and
\* the tail of approach_serpapi_images_title: the request returned, merge
\* and return
ApproachMerge(t) ==
    /\ Running
    /\ t # "serpapi_google"
    /\ task[t] \in {"io", "run"}
    /\ MayRespond
    /\ \E i \in 1..Len(ApproachResults(t)) : DoMerge(ApproachResults(t)[i], t)
    /\ task' = [task EXCEPT ![t] = "done"]
    /\ UNCHANGED <<calls, writer, now, timeoutMs, pc, elapsed, raceResult,
                   stopPath, aborted, outcome>>

    /\ UNCHANGED auxVars
\* approach_serpapi_google up to the first merge (lib.rs 1193-1204); with a
\* title it goes on to the classification call
ShoppingMerge ==
    /\ Running
    /\ task["serpapi_google"] \in {"io", "run"}
    /\ MayRespond
    /\ \E i \in 1..Len(ShoppingResults) :
          /\ DoMerge(ShoppingResults[i], "serpapi_google")
          /\ task' = [task EXCEPT !["serpapi_google"] =
                         IF IsNone(AndThenStr(Get(ShoppingResults[i], "product_name")))
                         THEN "done"
                         ELSE IF aborted["serpapi_google"] THEN "cancelled"
                         ELSE "io2"]
    /\ UNCHANGED <<calls, writer, now, timeoutMs, pc, elapsed, raceResult,
                   stopPath, aborted, outcome>>

    /\ UNCHANGED auxVars
\* approach_serpapi_google, second merge (lib.rs 1206-1208)
ClassificationMerge ==
    /\ Running
    /\ task["serpapi_google"] \in {"io2", "run2"}
    /\ \E i \in 1..Len(ClassificationResults) :
          DoMerge(ClassificationResults[i], "gemini_classification")
    /\ task' = [task EXCEPT !["serpapi_google"] = "done"]
    /\ UNCHANGED <<calls, writer, now, timeoutMs, pc, elapsed, raceResult,
                   stopPath, aborted, outcome>>

    /\ UNCHANGED auxVars
\* mutation of ApproachFail: fail-fast, the failure of one approach drops
\* every peer that is still suspended
ApproachFail_failfast(t) ==
    /\ Running
    /\ task[t] \in {"wait", "io", "io2", "run", "run2"}
    /\ task[t] \in {"io2", "run2"} \/ MayRespond
    /\ task' = [u \in Tasks |->
                  IF u = t THEN "done"
                  ELSE IF task[u] \in Suspended THEN "cancelled" ELSE task[u]]
    /\ UNCHANGED <<product, attribution, calls, writer, now, timeoutMs, pc, elapsed, raceResult, stopPath, aborted, outcome, firstComplete,
                   strongSince>>

    /\ UNCHANGED auxVars
\* any `?` / `return None` of an approach, and a classification that
\* returns None: the task returns without merging
ApproachFail(t) ==
    /\ Running
    /\ task[t] \in {"wait", "io", "io2", "run", "run2"}
    /\ task[t] \in {"io2", "run2"} \/ MayRespond
    /\ task' = [task EXCEPT ![t] = "done"]
    /\ UNCHANGED <<product, attribution, calls, writer, now, timeoutMs, pc, elapsed, raceResult, stopPath, aborted, outcome, firstComplete,
                   strongSince>>

    /\ UNCHANGED auxVars
\* approach_serpapi_images_title: the wait loop finds a product_name
\* (lib.rs 1251-1255) and the search request is sent
TitleSeesName ==
    /\ Running
    /\ task["serpapi_images_title"] = "wait"
    /\ IsSome(product.product_name)
    /\ task' = [task EXCEPT !["serpapi_images_title"] = "io"]
    /\ UNCHANGED <<product, attribution, calls, writer, now, timeoutMs, pc, elapsed, raceResult, stopPath, aborted, outcome, firstComplete,
                   strongSince>>

    /\ UNCHANGED auxVars
(***************************************************************************)
(* scrape_product_rust (lib.rs 1303-1440)                                  *)
(***************************************************************************)
\* wreq::Client::builder().build() fails: `?` returns the error
BuildClientFail ==
    /\ pc = "start"
    /\ pc' = "done"
    /\ outcome' = [kind |-> "ClientBuildError", record |-> DefaultProduct]
    /\ UNCHANGED <<product, attribution, calls, writer, now, timeoutMs, elapsed, raceResult, stopPath, aborted, task, firstComplete,
                   strongSince>>

    /\ UNCHANGED auxVars
\* the client is built and the eight approaches are spawned
Spawn ==
    /\ pc = "start"
    /\ pc' = "loop"
    /\ task' = [t \in Tasks |-> IF t = "serpapi_images_title" THEN "wait" ELSE "io"]
    /\ UNCHANGED <<product, attribution, calls, writer, now, timeoutMs, elapsed, raceResult, stopPath, aborted, outcome, firstComplete,
                   strongSince>>

    /\ UNCHANGED auxVars
\* mutation of CheckComplete: the elapsed time is counted from the moment
\* the record became complete instead of from start_time
CheckComplete_since_complete ==
    /\ pc = "loop"
    /\ IF is_complete(product)
       THEN /\ elapsed' = now - firstComplete
            /\ pc' = "strong"
       ELSE /\ pc' = "sleep"
            /\ UNCHANGED elapsed
    /\ UNCHANGED <<product, attribution, calls, writer, now, timeoutMs, raceResult,
                   stopPath, aborted, task, outcome, firstComplete, strongSince>>

    /\ UNCHANGED auxVars
\* loop head: `if state.is_complete().await { let elapsed = ...`; otherwise
\* the iteration goes to the sleep
CheckComplete ==
    /\ pc = "loop"
    /\ IF is_complete(product)
       THEN /\ elapsed' = now
            /\ pc' = "strong"
       ELSE /\ pc' = "sleep"
            /\ UNCHANGED elapsed
    /\ UNCHANGED <<product, attribution, calls, writer, now, timeoutMs, raceResult,
                   stopPath, aborted, task, outcome, firstComplete, strongSince>>

    /\ UNCHANGED auxVars
\* mutation of CheckStrong: a complete record is accepted at once, without
\* the test of the elapsed time
CheckStrong_nowait ==
    /\ pc = "strong"
    /\ pc' = "abort"
    /\ raceResult' = "Ok"
    /\ stopPath' = IF has_strong_source(attribution) THEN "strong" ELSE "soft"
    /\ UNCHANGED <<product, attribution, calls, writer, now, timeoutMs, elapsed,
                   aborted, task, outcome, firstComplete, strongSince>>

    /\ UNCHANGED auxVars
\* mutation of CheckStrong: the strong source is honoured only after the
\* soft deadline as well
CheckStrong_late ==
    /\ pc = "strong"
    /\ IF elapsed > SoftDeadlineMs
       THEN /\ pc' = "abort"
            /\ raceResult' = "Ok"
            /\ stopPath' = IF has_strong_source(attribution) THEN "strong" ELSE "soft"
            /\ UNCHANGED elapsed
       ELSE /\ pc' = "sleep"
            /\ elapsed' = 0
            /\ UNCHANGED <<raceResult, stopPath>>
    /\ UNCHANGED <<product, attribution, calls, writer, now, timeoutMs,
                   aborted, task, outcome, firstComplete, strongSince>>

    /\ UNCHANGED auxVars
\* rest of the iteration: has_strong_source, then the elapsed test, then
\* the sleep
CheckStrong ==
    /\ pc = "strong"
    /\ IF has_strong_source(attribution)
       THEN /\ pc' = "abort"
            /\ raceResult' = "Ok"
            /\ stopPath' = "strong"
            /\ UNCHANGED elapsed
       ELSE IF elapsed > SoftDeadlineMs
       THEN /\ pc' = "abort"
            /\ raceResult' = "Ok"
            /\ stopPath' = "soft"
            /\ UNCHANGED elapsed
       ELSE /\ pc' = "sleep"
            /\ elapsed' = 0
            /\ UNCHANGED <<raceResult, stopPath>>
    /\ UNCHANGED <<product, attribution, calls, writer, now, timeoutMs,
                   aborted, task, outcome, firstComplete, strongSince>>

    /\ UNCHANGED auxVars
Max(a, b) == IF a >= b THEN a ELSE b

\* tokio::time::sleep(100 ms) completes and the next iteration begins.
\* Time passes only while the loop sleeps (its other steps take no time),
\* and the sleep completes only if that is no later than the deadline of
\* the enclosing timeout.
SleepDone ==
    /\ pc = "sleep"
    /\ now + PollMs <= timeoutMs
    /\ now' = now + PollMs
    /\ pc' = "loop"
    /\ UNCHANGED <<product, attribution, calls, writer, timeoutMs, elapsed,
                   raceResult, stopPath, aborted, task, outcome, firstComplete,
                   strongSince>>

    /\ UNCHANGED auxVars
\* mutation of TimeoutFire: the timeout never fires
TimeoutFire_never ==
    /\ FALSE
    /\ UNCHANGED vars

\* timeout(timeout_duration, ..) elapses while the loop future is pending:
\* in its sleep, when the deadline is no later than the end of the sleep,
\* or in a lock acquisition at or after the deadline.  The loop future is
\* dropped and race_result is Err.
TimeoutFire ==
    /\ \/ pc = "sleep" /\ timeoutMs <= now + PollMs
       \/ pc \in {"loop", "strong"} /\ timeoutMs <= now
    /\ now' = Max(now, timeoutMs)
    /\ pc' = "abort"
    /\ raceResult' = "Err"
    /\ stopPath' = "hard"
    /\ UNCHANGED <<product, attribution, calls, writer, timeoutMs, elapsed,
                   aborted, task, outcome, firstComplete, strongSince>>

    /\ UNCHANGED auxVars
\* effect of abort() on one task: a suspended task is dropped, a task in
\* the middle of a poll (member of `late`) runs on to its next await
AfterAbort(t, late) ==
    IF task[t] \in Suspended
    THEN IF t \in late THEN (IF task[t] = "io2" THEN "run2" ELSE "run")
         ELSE "cancelled"
    ELSE task[t]

\* mutation of AbortAll: the loop over the handles stops one short
AbortAll_skip_last ==
    /\ pc = "abort"
    /\ pc' = "final"
    /\ aborted' = [t \in Tasks |-> t # TaskNames[Len(TaskNames)]]
    /\ task' = [t \in Tasks |->
                  IF t # TaskNames[Len(TaskNames)] THEN AfterAbort(t, {}) ELSE task[t]]
    /\ UNCHANGED <<product, attribution, calls, writer, now, timeoutMs, elapsed, raceResult, stopPath, outcome, firstComplete, strongSince>>

    /\ UNCHANGED auxVars
\* `for handle in &handles { handle.abort(); }` (lib.rs 1392-1395)
AbortAll ==
    /\ pc = "abort"
    /\ pc' = "final"
    /\ aborted' = [t \in Tasks |-> TRUE]
    /\ \E late \in SUBSET {t \in Tasks : task[t] \in {"io", "io2"}} :
          /\ Cardinality(late) <= MaxLate
          /\ task' = [t \in Tasks |-> AfterAbort(t, late)]
    /\ UNCHANGED <<product, attribution, calls, writer, now, timeoutMs, elapsed, raceResult, stopPath, outcome, firstComplete, strongSince>>

    /\ UNCHANGED auxVars
\* mutation of validate: "other" is let through
validate_other_ok(p) ==
    IF IsSome(p.garment_type)
    THEN IF Unwrap(p.garment_type) = "unsupported" THEN "NotFashionProductError"
         ELSE IF Unwrap(p.garment_type) \in {"upper", "lower", "full_body", "shoes", "other"}
         THEN "Ok"
         ELSE "UnsupportedProductError"
    ELSE "UnsupportedProductError"

\* the garment_type validation (lib.rs 1405-1439)
validate(p) ==
    IF IsSome(p.garment_type)
    THEN IF Unwrap(p.garment_type) = "unsupported" THEN "NotFashionProductError"
         ELSE IF Unwrap(p.garment_type) = "other" THEN "UnsupportedProductError"
         ELSE IF Unwrap(p.garment_type) \in {"upper", "lower", "full_body", "shoes"}
         THEN "Ok"
         ELSE "UnsupportedProductError"
    ELSE "UnsupportedProductError"

\* mutation of FinalRead: a timeout with an incomplete record is an error
FinalRead_timeout_error ==
    /\ pc = "final"
    /\ pc' = "done"
    /\ outcome' = [kind   |-> IF raceResult = "Err" /\ ~is_complete(product)
                              THEN "TimeoutError" ELSE validate(product),
                   record |-> product]
    /\ UNCHANGED <<product, attribution, calls, writer, now, timeoutMs, elapsed, raceResult, stopPath, aborted, task, firstComplete,
                   strongSince>>

    /\ UNCHANGED auxVars
\* `state.product.lock().await.clone()`, the validation and the return
FinalRead ==
    /\ pc = "final"
    /\ pc' = "done"
    /\ outcome' = [kind |-> validate(product), record |-> product]
    /\ UNCHANGED <<product, attribution, calls, writer, now, timeoutMs, elapsed, raceResult, stopPath, aborted, task, firstComplete,
                   strongSince>>

    /\ UNCHANGED auxVars
Orchestrator ==
    \/ BuildClientFail
    \/ Spawn
    \/ CheckComplete
    \/ CheckStrong
    \/ SleepDone
    \/ TimeoutFire
    \/ AbortAll
    \/ FinalRead

Approaches ==
    \/ \E t \in Tasks : ApproachMerge(t)
    \/ ShoppingMerge
    \/ ClassificationMerge
    \/ \E t \in Tasks : ApproachFail(t)
    \/ TitleSeesName

Next == Orchestrator \/ Approaches

Spec == Init /\ [][Next]_vars

\* values of overall_timeout_sec (in ms) of the specification with fairness
FairTimeoutChoices == {0, 300, 600}

InitFair ==
    /\ CoreInit
    /\ timeoutMs \in FairTimeoutChoices
    /\ LockIdle
    /\ FnIdle

\* The orchestrator is the future driven by block_on and its timers fire:
\* a step of it that stays possible is eventually taken.  Nothing is
\* assumed of the approaches, which may stay suspended forever.
FairSpec == InitFair /\ [][Next]_vars /\ WF_vars(Orchestrator)

(***************************************************************************)
(* Properties of the orchestrator                                          *)
(***************************************************************************)
\* name, brand, price amount, at least one image and garment_type present
AllRequiredPresent(p) ==
    /\ p.product_name # None
    /\ p.brand # None
    /\ p.price # None
    /\ p.price[1].amount # None
    /\ Len(p.image_urls) >= 1
    /\ p.garment_type # None

Tier0 ==
    {"curlcffi_gemini", "curlcffi_gemini_proxy", "requests_gemini", "cloudflare_gemini"}

SomeFieldTier0(a) == \E f \in Fields : a[f] # None /\ a[f][1] \in Tier0

\* C5: the loop returns Ok only with a complete record, and then either a
\* field is attributed to a tier-0 source or the poll that decided read an
\* elapsed time of more than 5000 ms.
C5_EarlyStopOnlyWhenAcceptable ==
    raceResult = "Ok" =>
        /\ AllRequiredPresent(product)
        /\ \/ SomeFieldTier0(attribution)
           \/ elapsed > SoftDeadlineMs /\ now > SoftDeadlineMs

\* the soft path: a record complete long before 5000 ms, without a tier-0
\* source, is returned after 5000 ms
C5_Witness ==
    /\ pc = "abort"
    /\ raceResult = "Ok"
    /\ stopPath = "soft"
    /\ firstComplete >= 0
    /\ firstComplete < SoftDeadlineMs
    /\ ~SomeFieldTier0(attribution)
    /\ now < timeoutMs

\* C6: once the record is complete with a tier-0 attribution the loop ends
\* at its next poll: it is never still running more than one poll interval
\* after that moment.
C6_StrongStopsAtNextPoll ==
    (InLoop /\ strongSince >= 0) => now <= strongSince + PollMs

\* a stop on the strong path long before the soft deadline, with other
\* approaches still suspended in their requests
C6_Witness ==
    /\ pc = "abort"
    /\ stopPath = "strong"
    /\ strongSince >= PollMs
    /\ now = strongSince + PollMs
    /\ now < SoftDeadlineMs
    /\ \E t \in Tasks : task[t] = "io"

\* C7 (as claimed): a record accepted on the soft path has been complete
\* for 5 seconds.
C7_SoftWindowFromCompleteness ==
    stopPath = "soft" => now >= firstComplete + SoftDeadlineMs

\* C7 (amended): the 5 seconds count from the start of the scrape.  A
\* record is accepted on the soft path only at an elapsed time since the
\* start of more than 5000 ms, and a complete record is no longer waited
\* for after the first poll that follows both its completion and the
\* 5000 ms since the start.
C7_SoftDeadlineFromStart ==
    /\ stopPath = "soft" => (elapsed > SoftDeadlineMs /\ elapsed <= now)
    /\ (InLoop /\ firstComplete >= 0) =>
           now <= Max(firstComplete, SoftDeadlineMs) + PollMs

\* a soft-path stop of a record that became complete well after the start
\* and less than 5 seconds before the stop
C7_Witness ==
    /\ pc = "abort"
    /\ stopPath = "soft"
    /\ firstComplete > PollMs
    /\ now < firstComplete + SoftDeadlineMs

\* C8: the orchestrator always returns.
C8_OrchestratorTerminates == <>(pc = "done" /\ outcome.kind # "none")

\* the hard deadline ended the loop of a scrape in which no approach ever
\* returned, and the orchestrator returned
C8_Witness ==
    /\ pc = "done"
    /\ raceResult = "Err"
    /\ now >= timeoutMs
    /\ product = DefaultProduct
    /\ \A t \in Tasks : task[t] = "cancelled"

\* C9: when the final record is read, and when the orchestrator has
\* returned, abort() has been called on each of the 8 task handles, and no
\* task is still suspended in its approach.
C9_AllAbortedBeforeFinalRead ==
    (pc = "final" \/ (pc = "done" /\ raceResult # "none")) =>
        /\ Cardinality(Tasks) = 8
        /\ \A t \in Tasks : aborted[t] /\ task[t] \notin Suspended

\* the final read after a hard deadline, with finished and cancelled tasks
C9_Witness ==
    /\ pc = "final"
    /\ stopPath = "hard"
    /\ \E t \in Tasks : task[t] = "cancelled"
    /\ \E t \in Tasks : task[t] = "done"
    /\ \A t \in Tasks : aborted[t]

ExpectedOutcome(g) ==
    IF g = Some("unsupported") THEN "NotFashionProductError"
    ELSE IF g \in {Some("upper"), Some("lower"), Some("full_body"), Some("shoes")}
    THEN "Ok"
    ELSE "UnsupportedProductError"

\* C10: the outcome of a scrape that reached the validation is decided by
\* the garment_type of the final record alone: "unsupported" gives
\* NotFashionProductError, upper / lower / full_body / shoes give Ok, every
\* other value and an absent garment_type give UnsupportedProductError.
C10_ValidationByGarmentType ==
    (pc = "done" /\ raceResult # "none") =>
        outcome.kind = ExpectedOutcome(outcome.record.garment_type)

\* a complete record with a strong source and a garment_type outside the
\* supported set is rejected
C10_Witness ==
    /\ pc = "done"
    /\ stopPath = "strong"
    /\ AllRequiredPresent(outcome.record)
    /\ outcome.record.garment_type = Some("hat")
    /\ outcome.kind = "UnsupportedProductError"

(***************************************************************************)
(* scrape_url (lib.rs 1446-1500): what the Python caller receives for a    *)
(* value returned by scrape_product_rust                                   *)
(***************************************************************************)
scrape_url(o) ==
    IF o.kind = "Ok"
    THEN LET p == o.record
             name_missing  == IsNone(p.product_name)
             brand_missing == IsNone(p.brand)
             price_missing == IsNone(PriceAmount(p))
             image_missing == p.image_urls = <<>>
         IN  [kind          |-> "dict",
              name_missing  |-> name_missing,
              brand_missing |-> brand_missing,
              price_missing |-> price_missing,
              image_missing |-> image_missing,
              unsupported   |-> p.garment_type = Some("unsupported"),
              success       |-> ~(name_missing \/ brand_missing
                                  \/ price_missing \/ image_missing)]
    ELSE [kind |-> "PyRuntimeError", message |-> o.kind]

SupportedGarments == {"upper", "lower", "full_body", "shoes"}

\* C11: the expiry of the hard deadline is not an error.  The orchestrator
\* returns Ok or one of three errors (the two validation errors, the client
\* construction failure, the latter only before the race); after a timeout
\* a record with a supported garment_type is returned as Ok whatever else
\* is missing, and the caller then gets the record with success = false
\* exactly when name, brand, price amount or images are missing.
C11_TimeoutIsNotAnError ==
    pc = "done" =>
        /\ outcome.kind \in {"Ok", "NotFashionProductError",
                             "UnsupportedProductError", "ClientBuildError"}
        /\ (outcome.kind = "ClientBuildError") = (raceResult = "none")
        /\ (/\ raceResult = "Err"
            /\ IsSome(outcome.record.garment_type)
            /\ Unwrap(outcome.record.garment_type) \in SupportedGarments)
           => /\ outcome.kind = "Ok"
              /\ scrape_url(outcome).kind = "dict"
              /\ scrape_url(outcome).success =
                     (/\ outcome.record.product_name # None
                      /\ outcome.record.brand # None
                      /\ outcome.record.price # None
                      /\ outcome.record.image_urls # <<>>)
        /\ outcome.kind # "Ok" => scrape_url(outcome).kind = "PyRuntimeError"

\* the hard deadline expired on a record that has only its garment_type:
\* Ok is returned and the caller sees success = false
C11_Witness ==
    /\ pc = "done"
    /\ raceResult = "Err"
    /\ outcome.kind = "Ok"
    /\ outcome.record.product_name = None
    /\ outcome.record.brand = None
    /\ outcome.record.price = None
    /\ outcome.record.image_urls = <<>>
    /\ scrape_url(outcome).success = FALSE
    /\ scrape_url(outcome).name_missing

\* C12: the failure of an approach is local.  A step in which an approach
\* returns changes the position of no other approach and nothing of the
\* orchestrator; a failing approach leaves MergeState as it is; and an
\* approach is cancelled only by the orchestrator's abort at its exit.
C12_FailureIsLocal ==
    [][ /\ \A t \in Tasks :
            /\ (task[t] # "done" /\ task'[t] = "done") =>
                   /\ \A u \in Tasks \ {t} : task'[u] = task[u]
                   /\ UNCHANGED <<pc, raceResult, stopPath, aborted, outcome>>
            /\ (task[t] # "cancelled" /\ task'[t] = "cancelled") =>
                   (pc = "abort" \/ aborted[t])
            /\ ApproachFail(t) => UNCHANGED <<product, attribution>>
      ]_vars

\* gemini_fast has returned without a merge (no garment_type was ever
\* written), serpapi_images_url has merged its image, the other approaches
\* are still in their requests and the race loop is still running
C12_Witness ==
    /\ InLoop
    /\ task["gemini_fast"] = "done"
    /\ product.garment_type = None
    /\ task["serpapi_images_url"] = "done"
    /\ product.image_urls = <<"x.jpg">>
    /\ attribution["image_urls"] = Some("serpapi_images_url")
    /\ \A t \in Tasks \ {"gemini_fast", "serpapi_images_url"} : task[t] \in Suspended
    /\ \A t \in Tasks : ~aborted[t]

(***************************************************************************)
(* Lock-level model of ScrapeState (lib.rs 75-98, 222-237, 1250-1263):     *)
(* merge_data statement by statement under its two mutex guards, next to   *)
(* the tasks that read MergeState                                          *)
(***************************************************************************)
\* number of merge_data calls
MaxLockMerges == 2

\* source tags and payloads (indices of PayloadPool) of the merging tasks
LockSources == {"curlcffi_gemini", "serpapi_google"}

LockPayloads == {1, 2, 4}

\* the variables no step of the lock-level model changes
coreVars == <<calls, writer, orchVars, proc, input, output>>

\* the six `if` blocks of merge_data in program order: the position before
\* the block, the field it writes, the position between its write of the
\* product field and its attribution.insert, and the position after it
StepField ==
    [name |-> "product_name", brand |-> "brand", price |-> "price",
     images |-> "image_urls", garment |-> "garment_type", avail |-> "availability"]

AttrStep ==
    [name |-> "name_attr", brand |-> "brand_attr", price |-> "price_attr",
     images |-> "images_attr", garment |-> "garment_attr", avail |-> "avail_attr"]

StepAfter ==
    [name |-> "brand", brand |-> "price", price |-> "images", images |-> "garment",
     garment |-> "avail", avail |-> "end"]

Writing == DOMAIN StepField \cup {AttrStep[x] : x \in DOMAIN StepField} \cup {"end"}

StepOfAttr(a) == CHOOSE x \in DOMAIN StepField : AttrStep[x] = a

FieldMerge(step, st, incoming, source) ==
    CASE step = "name"    -> MergeProductName(st, incoming, source)
      [] step = "brand"   -> MergeBrand(st, incoming, source)
      [] step = "price"   -> MergePrice(st, incoming, source)
      [] step = "images"  -> MergeImageUrls(st, incoming, source)
      [] step = "garment" -> MergeGarmentType(st, incoming, source)
      [] step = "avail"   -> MergeAvailability(st, incoming, source)

\* merge_data is called and `self.product.lock().await` returns the guard
MergeBegin(m, source, i) ==
    /\ lpc[m] = "idle"
    /\ mergesDone < MaxLockMerges
    /\ holder.product = "none"
    /\ holder' = [holder EXCEPT !.product = m]
    /\ job' = [job EXCEPT ![m] = <<source, i>>]
    /\ lpc' = [lpc EXCEPT ![m] = "lockA"]
    /\ mergesDone' = mergesDone + 1
    /\ UNCHANGED <<product, attribution, committed, snapshot, coreVars>>

\* mutation of MergeLockAttribution: the body is entered without the guard
\* of field_attribution
MergeLockAttribution_skip(m) ==
    /\ lpc[m] = "lockA"
    /\ lpc' = [lpc EXCEPT ![m] = "name"]
    /\ UNCHANGED <<product, attribution, holder, job, committed, mergesDone,
                   snapshot, coreVars>>

\* `self.field_attribution.lock().await` returns the guard
MergeLockAttribution(m) ==
    /\ lpc[m] = "lockA"
    /\ holder.field_attribution = "none"
    /\ holder' = [holder EXCEPT !.field_attribution = m]
    /\ lpc' = [lpc EXCEPT ![m] = "name"]
    /\ UNCHANGED <<product, attribution, job, committed, mergesDone, snapshot,
                   coreVars>>

\* the condition of one `if` block and, when it holds, the assignment to
\* the product field
MergeWriteProduct(m) ==
    /\ lpc[m] \in DOMAIN StepField
    /\ \E r \in {FieldMerge(lpc[m],
                            [product |-> product, attribution |-> attribution,
                             merged_fields |-> <<>>],
                            PayloadPool[job[m][2]], job[m][1])} :
          /\ product' = r.product
          /\ lpc' = [lpc EXCEPT ![m] = IF r.merged_fields = <<>>
                                       THEN StepAfter[lpc[m]]
                                       ELSE AttrStep[lpc[m]]]
    /\ UNCHANGED <<attribution, holder, job, committed, mergesDone, snapshot,
                   coreVars>>

\* `attribution.insert(field, source)` of the same block
MergeWriteAttribution(m) ==
    /\ lpc[m] \in {AttrStep[x] : x \in DOMAIN StepField}
    /\ attribution' =
           [attribution EXCEPT ![StepField[StepOfAttr(lpc[m])]] = Some(job[m][1])]
    /\ lpc' = [lpc EXCEPT ![m] = StepAfter[StepOfAttr(lpc[m])]]
    /\ UNCHANGED <<product, holder, job, committed, mergesDone, snapshot, coreVars>>

\* end of merge_data: the guards it holds are dropped
MergeEnd(m) ==
    /\ lpc[m] = "end"
    /\ holder' = [x \in DOMAIN holder |-> IF holder[x] = m THEN "none" ELSE holder[x]]
    /\ committed' = [product |-> product, attribution |-> attribution]
    /\ job' = [job EXCEPT ![m] = <<"", 0>>]
    /\ lpc' = [lpc EXCEPT ![m] = "idle"]
    /\ UNCHANGED <<product, attribution, mergesDone, snapshot, coreVars>>

\* race loop, `state.is_complete().await`: the lock of product is acquired
PollLockProduct ==
    /\ lpc["poll"] = "idle"
    /\ holder.product = "none"
    /\ holder' = [holder EXCEPT !.product = "poll"]
    /\ lpc' = [lpc EXCEPT !["poll"] = "ic_read"]
    /\ UNCHANGED <<product, attribution, job, committed, mergesDone, snapshot,
                   coreVars>>

\* ProductData::is_complete is evaluated and the guard dropped; when it is
\* false the iteration sleeps and starts over
PollIsComplete ==
    /\ lpc["poll"] = "ic_read"
    /\ holder' = [holder EXCEPT !.product = "none"]
    /\ IF is_complete(product)
       THEN /\ lpc' = [lpc EXCEPT !["poll"] = "hs_lock"]
            /\ snapshot' = [product |-> product, attribution |-> attribution]
       ELSE /\ lpc' = [lpc EXCEPT !["poll"] = "idle"]
            /\ UNCHANGED snapshot
    /\ UNCHANGED <<product, attribution, job, committed, mergesDone, coreVars>>

\* `state.has_strong_source().await`: the lock of field_attribution is
\* acquired
PollLockAttribution ==
    /\ lpc["poll"] = "hs_lock"
    /\ holder.field_attribution = "none"
    /\ holder' = [holder EXCEPT !.field_attribution = "poll"]
    /\ lpc' = [lpc EXCEPT !["poll"] = "hs_read"]
    /\ UNCHANGED <<product, attribution, job, committed, mergesDone, snapshot,
                   coreVars>>

\* the attribution is scanned and the guard dropped: the loop returns, or
\* sleeps and starts over
PollHasStrongSource ==
    /\ lpc["poll"] = "hs_read"
    /\ holder' = [holder EXCEPT !.field_attribution = "none"]
    /\ lpc' = [lpc EXCEPT !["poll"] =
                  IF has_strong_source(attribution) THEN "returned" ELSE "idle"]
    /\ snapshot' = [product |-> DefaultProduct, attribution |-> EmptyAttribution]
    /\ UNCHANGED <<product, attribution, job, committed, mergesDone, coreVars>>

\* approach_serpapi_images_title, wait loop: the lock of product is
\* acquired
TitleLockProduct ==
    /\ lpc["title"] = "idle"
    /\ holder.product = "none"
    /\ holder' = [holder EXCEPT !.product = "title"]
    /\ lpc' = [lpc EXCEPT !["title"] = "t_read"]
    /\ UNCHANGED <<product, attribution, job, committed, mergesDone, snapshot,
                   coreVars>>

\* product_name is read and the guard dropped: the loop breaks with the
\* name, or sleeps and tries again, or gives up once its attempts are used
TitleRead ==
    /\ lpc["title"] = "t_read"
    /\ holder' = [holder EXCEPT !.product = "none"]
    /\ \E next \in (IF IsSome(product.product_name) THEN {"found"}
                    ELSE {"idle", "gave_up"}) :
          lpc' = [lpc EXCEPT !["title"] = next]
    /\ UNCHANGED <<product, attribution, job, committed, mergesDone, snapshot,
                   coreVars>>

NextLock ==
    \/ \E m \in Mergers, source \in LockSources, i \in LockPayloads :
          MergeBegin(m, source, i)
    \/ \E m \in Mergers : MergeLockAttribution(m)
    \/ \E m \in Mergers : MergeWriteProduct(m)
    \/ \E m \in Mergers : MergeWriteAttribution(m)
    \/ \E m \in Mergers : MergeEnd(m)
    \/ PollLockProduct
    \/ PollIsComplete
    \/ PollLockAttribution
    \/ PollHasStrongSource
    \/ TitleLockProduct
    \/ TitleRead

InitLock ==
    /\ CoreInit
    /\ timeoutMs = MaxTimeoutMs
    /\ LockIdle
    /\ FnIdle

SpecLock == InitLock /\ [][NextLock]_vars

MergeState == [product |-> product, attribution |-> attribution]

\* C13: a merge_data call is atomic for every observer.  A task that holds
\* the guard of either mutex in order to read sees product and attribution
\* exactly as the last finished merge_data call left them; the statements
\* of a call run only while the call holds both guards; and the statements
\* together have the effect of merge_data on the state the call found.
C13_MergeIsAtomicForReaders ==
    /\ \A r \in Readers :
          (holder.product = r \/ holder.field_attribution = r)
              => MergeState = committed
    /\ \A m \in Mergers :
          /\ lpc[m] \in Writing =>
                (holder.product = m /\ holder.field_attribution = m)
          /\ lpc[m] = "end" =>
                LET r == merge_data(committed.product, committed.attribution,
                                    PayloadPool[job[m][2]], job[m][1])
                IN  MergeState = [product |-> r.product,
                                  attribution |-> r.attribution]
    /\ (\A m \in Mergers : lpc[m] \notin Writing) => MergeState = committed

\* a second merge_data call has written product_name and not yet its
\* attribution, while the race loop waits for the attribution lock and the
\* title waiter for the product lock
C13_Witness ==
    /\ \E m \in Mergers :
          /\ lpc[m] = "name_attr"
          /\ product.product_name # committed.product.product_name
    /\ committed.product # DefaultProduct
    /\ lpc["poll"] = "hs_lock"
    /\ lpc["title"] = "idle"

\* C14 (as claimed): the two reads of one poll observe the same MergeState:
\* at the has_strong_source read the state is the one is_complete read.
C14_PollReadsOneSnapshot ==
    lpc["poll"] = "hs_read" => snapshot = MergeState

(***************************************************************************)
(* URL utilities (lib.rs 316-398) on tuples of characters                  *)
(***************************************************************************)
LowerLetters ==
    <<"a", "b", "c", "d", "e", "f", "g", "h", "i", "j", "k", "l", "m",
      "n", "o", "p", "q", "r", "s", "t", "u", "v", "w", "x", "y", "z">>

UpperLetters ==
    <<"A", "B", "C", "D", "E", "F", "G", "H", "I", "J", "K", "L", "M",
      "N", "O", "P", "Q", "R", "S", "T", "U", "V", "W", "X", "Y", "Z">>

\* char::is_ascii_alphabetic
is_ascii_alphabetic(c) ==
    \E i \in 1..26 : LowerLetters[i] = c \/ UpperLetters[i] = c

\* str::to_lowercase on ASCII text
to_lowercase(s) ==
    [i \in 1..Len(s) |->
        IF \E k \in 1..26 : UpperLetters[k] = s[i]
        THEN LowerLetters[CHOOSE k \in 1..26 : UpperLetters[k] = s[i]]
        ELSE s[i]]

\* index of the first character of s that is in the set cs, Len(s) + 1 if
\* there is none
FirstOf(s, cs) ==
    LET hits == {i \in 1..Len(s) : s[i] \in cs}
    IN  IF hits = {} THEN Len(s) + 1
        ELSE CHOOSE i \in hits : \A j \in hits : i <= j

\* str::split(sep) for a one-character separator
RECURSIVE Split(_, _)
Split(s, sep) ==
    LET k == FirstOf(s, {sep})
    IN  IF k > Len(s) THEN <<s>>
        ELSE <<SubSeq(s, 1, k - 1)>> \o Split(SubSeq(s, k + 1, Len(s)), sep)

\* [..].join(sep)
RECURSIVE Join(_, _)
Join(segs, sep) ==
    IF segs = <<>> THEN <<>>
    ELSE IF Len(segs) = 1 THEN segs[1]
    ELSE segs[1] \o <<sep>> \o Join(Tail(segs), sep)

\* Url::parse for absolute URLs "scheme://host[/path][?query][#fragment]"
\* of the schemes http and https: the scheme and the host are lowercased
\* and an empty path becomes "/".  A text without ':' is a relative URL
\* and an error; so is an empty host.  (User info, ports, dot segments,
\* percent-encoding and other schemes do not occur in the inputs of this
\* model.)
UrlParse(s) ==
    LET colon  == FirstOf(s, {":"})
        scheme == to_lowercase(SubSeq(s, 1, colon - 1))
        rest   == SubSeq(s, colon + 3, Len(s))
        hEnd   == FirstOf(rest, {"/", "?", "#"})
        host   == to_lowercase(SubSeq(rest, 1, hEnd - 1))
        tail   == SubSeq(rest, hEnd, Len(rest))
        pEnd   == FirstOf(tail, {"?", "#"})
        path   == SubSeq(tail, 1, pEnd - 1)
        after  == SubSeq(tail, pEnd, Len(tail))
        hash   == FirstOf(after, {"#"})
    IN  IF colon > Len(s) \/ colon = 1 THEN None
        ELSE IF SubSeq(s, colon, colon + 2) # <<":", "/", "/">> THEN None
        ELSE IF host = <<>> THEN None
        ELSE Some([scheme   |-> scheme,
                   host     |-> host,
                   path     |-> IF path = <<>> THEN <<"/">> ELSE path,
                   query    |-> IF after # <<>> /\ Head(after) = "?"
                                THEN Some(SubSeq(after, 2, hash - 1)) ELSE None,
                   fragment |-> IF hash <= Len(after)
                                THEN Some(SubSeq(after, hash + 1, Len(after)))
                                ELSE None])

\* Url::to_string
UrlToString(u) ==
    u.scheme \o <<":", "/", "/">> \o u.host \o u.path
    \o (IF IsSome(u.query) THEN <<"?">> \o Unwrap(u.query) ELSE <<>>)
    \o (IF IsSome(u.fragment) THEN <<"#">> \o Unwrap(u.fragment) ELSE <<>>)

normalize_domain(url) ==
    LET parsed == UrlParse(url)
    IN  IF IsNone(parsed) THEN None
        ELSE LET host == to_lowercase(Unwrap(parsed).host)
             IN  IF HasPrefix(host, <<"w", "w", "w", ".">>)
                 THEN Some(SubSeq(host, 5, Len(host)))
                 ELSE Some(host)

\* the test of the `for seg in segments` loop: five bytes, '-' or '_' in
\* the middle, letters around it
IsLocaleSegment(seg) ==
    LET lower == to_lowercase(seg)
    IN  /\ Len(lower) = 5
        /\ lower[3] \in {"-", "_"}
        /\ is_ascii_alphabetic(lower[1]) /\ is_ascii_alphabetic(lower[2])
        /\ is_ascii_alphabetic(lower[4]) /\ is_ascii_alphabetic(lower[5])

\* mutation of CleanedSegments: after a removed segment the next one is
\* kept without being tested
RECURSIVE CleanedSegments_skip_next(_)
CleanedSegments_skip_next(segments) ==
    IF segments = <<>> THEN <<>>
    ELSE IF IsLocaleSegment(Head(segments))
    THEN IF Len(segments) >= 2
         THEN <<segments[2]>> \o CleanedSegments_skip_next(Tail(Tail(segments)))
         ELSE <<>>
    ELSE <<Head(segments)>> \o CleanedSegments_skip_next(Tail(segments))

\* cleaned_segments: the segments that are not locale-looking, in order
RECURSIVE CleanedSegments(_)
CleanedSegments(segments) ==
    IF segments = <<>> THEN <<>>
    ELSE IF IsLocaleSegment(Head(segments)) THEN CleanedSegments(Tail(segments))
    ELSE <<Head(segments)>> \o CleanedSegments(Tail(segments))

\* parsed.path().split('/').filter(|s| !s.is_empty()).collect()
PathSegments(path) == SelectSeq(Split(path, "/"), LAMBDA seg : seg # <<>>)

\* new_path of normalize_url_path
NewPath(path) == <<"/">> \o Join(CleanedSegments(PathSegments(path)), "/")

normalize_url_path(url) ==
    LET parsed == UrlParse(url)
    IN  IF IsNone(parsed) THEN None
        ELSE Some(UrlToString([Unwrap(parsed) EXCEPT
                                  !.path = NewPath(Unwrap(parsed).path),
                                  !.query = None,
                                  !.fragment = None]))

\* mutation of urls_match_product: the second URL is compared as given
urls_match_product_raw(url1, url2) ==
    LET domain1 == normalize_domain(url1)
        domain2 == normalize_domain(url2)
    IN  IF IsNone(domain1) THEN FALSE
        ELSE IF IsNone(domain2) THEN FALSE
        ELSE IF domain1 # domain2 THEN FALSE
        ELSE OrElse(normalize_url_path(url1), Some(url1)) = Some(url2)

urls_match_product(url1, url2) ==
    LET domain1 == normalize_domain(url1)
        domain2 == normalize_domain(url2)
    IN  IF IsNone(domain1) THEN FALSE
        ELSE IF IsNone(domain2) THEN FALSE
        ELSE IF domain1 # domain2 THEN FALSE
        ELSE OrElse(normalize_url_path(url1), Some(url1))
                 = OrElse(normalize_url_path(url2), Some(url2))

(***************************************************************************)
(* Inputs of the URL utilities                                             *)
(***************************************************************************)
\* number of path segments of an input URL
MaxSegs == 3

\* "en-US", "fr_FR" (locale-looking), "products", "x", "foo-bar", "ab-12"
\* (kept), and the empty segment (a doubled or trailing slash)
SegmentPool ==
    << <<"e", "n", "-", "U", "S">>, <<"f", "r", "_", "F", "R">>, <<"p", "r", "o", "d", "u", "c", "t", "s">>,
       <<"x">>, <<"f", "o", "o", "-", "b", "a", "r">>, <<"a", "b", "-", "1",
                                                       "2">>, <<>> >>

RECURSIVE SegmentSeqs(_)
SegmentSeqs(n) ==
    IF n = 0 THEN {<<>>}
    ELSE LET shorter == SegmentSeqs(n - 1)
         IN  shorter \cup {Append(q, SegmentPool[i]) :
                              q \in {x \in shorter : Len(x) = n - 1},
                              i \in 1..Len(SegmentPool)}

\* what surrounds the path: <<text before the path, text after it>>
\*   "https://shop.example.com" + path
\*   "https://www.shop.example.com" + path + "?pid=1"
\*   "http://Shop.Example.com" + path + "#top"
\*   "HTTPS://www.shop.example.com" + path + "?utm=1#top"
Envelopes ==
    << << <<"h", "t", "t", "p", "s", ":", "/", "/", "s", "h", "o", "p", ".",
            "e", "x", "a", "m", "p", "l", "e", ".", "c", "o", "m">>, <<>> >>,
       << <<"h", "t", "t", "p", "s", ":", "/", "/", "w", "w", "w", ".", "s",
            "h", "o", "p", ".", "e", "x", "a", "m", "p", "l", "e", ".", "c",
            "o", "m">>, <<"?", "p", "i", "d", "=", "1">> >>,
       << <<"h", "t", "t", "p", ":", "/", "/", "S", "h", "o", "p", ".", "E",
            "x", "a", "m", "p", "l", "e", ".", "c", "o", "m">>, <<"#", "t",
                                                                  "o", "p">> >>,
       << <<"H", "T", "T", "P", "S", ":", "/", "/", "w", "w", "w", ".", "s",
            "h", "o", "p", ".", "e", "x", "a", "m", "p", "l", "e", ".", "c",
            "o", "m">>, <<"?", "u", "t", "m", "=", "1", "#", "t", "o", "p">> >> >>

RenderPath(segs) == IF segs = <<>> THEN <<>> ELSE <<"/">> \o Join(segs, "/")

\* the well-formed http(s) URLs given to the one-URL functions
UrlStrings ==
    {Envelopes[e][1] \o RenderPath(segs) \o Envelopes[e][2] :
        e \in 1..Len(Envelopes), segs \in SegmentSeqs(MaxSegs)}

\* the URLs compared pairwise
PairUrls ==
    << \* https://shop.example.com/en-US/products/x?pid=1
       <<"h", "t", "t", "p", "s", ":", "/", "/", "s", "h", "o", "p", ".",
         "e", "x", "a", "m", "p", "l", "e", ".", "c", "o", "m", "/", "e",
         "n", "-", "U", "S", "/", "p", "r", "o", "d", "u", "c", "t", "s",
         "/", "x", "?", "p", "i", "d", "=", "1">>,
       \* https://www.shop.example.com/fr_FR/products/x?utm=1
       <<"h", "t", "t", "p", "s", ":", "/", "/", "w", "w", "w", ".", "s",
         "h", "o", "p", ".", "e", "x", "a", "m", "p", "l", "e", ".", "c",
         "o", "m", "/", "f", "r", "_", "F", "R", "/", "p", "r", "o", "d",
         "u", "c", "t", "s", "/", "x", "?", "u", "t", "m", "=", "1">>,
       \* https://shop.example.com/products/x
       <<"h", "t", "t", "p", "s", ":", "/", "/", "s", "h", "o", "p", ".",
         "e", "x", "a", "m", "p", "l", "e", ".", "c", "o", "m", "/", "p",
         "r", "o", "d", "u", "c", "t", "s", "/", "x">>,
       \* https://SHOP.example.com/products/x/#top
       <<"h", "t", "t", "p", "s", ":", "/", "/", "S", "H", "O", "P", ".",
         "e", "x", "a", "m", "p", "l", "e", ".", "c", "o", "m", "/", "p",
         "r", "o", "d", "u", "c", "t", "s", "/", "x", "/", "#", "t", "o",
         "p">>,
       \* https://www.shop.example.com/products/x
       <<"h", "t", "t", "p", "s", ":", "/", "/", "w", "w", "w", ".", "s",
         "h", "o", "p", ".", "e", "x", "a", "m", "p", "l", "e", ".", "c",
         "o", "m", "/", "p", "r", "o", "d", "u", "c", "t", "s", "/", "x">>,
       \* http://shop.example.com/products/x
       <<"h", "t", "t", "p", ":", "/", "/", "s", "h", "o", "p", ".", "e",
         "x", "a", "m", "p", "l", "e", ".", "c", "o", "m", "/", "p", "r",
         "o", "d", "u", "c", "t", "s", "/", "x">>,
       \* https://shop.example.com/products/y
       <<"h", "t", "t", "p", "s", ":", "/", "/", "s", "h", "o", "p", ".",
         "e", "x", "a", "m", "p", "l", "e", ".", "c", "o", "m", "/", "p",
         "r", "o", "d", "u", "c", "t", "s", "/", "y">>,
       \* https://other.example.com/products/x
       <<"h", "t", "t", "p", "s", ":", "/", "/", "o", "t", "h", "e", "r",
         ".", "e", "x", "a", "m", "p", "l", "e", ".", "c", "o", "m", "/",
         "p", "r", "o", "d", "u", "c", "t", "s", "/", "x">>,
       \* https://shop.example.com/en-US/fr_FR//x/
       <<"h", "t", "t", "p", "s", ":", "/", "/", "s", "h", "o", "p", ".",
         "e", "x", "a", "m", "p", "l", "e", ".", "c", "o", "m", "/", "e",
         "n", "-", "U", "S", "/", "f", "r", "_", "F", "R", "/", "/", "x",
         "/">>,
       \* https://shop.example.com/x?utm=1#top
       <<"h", "t", "t", "p", "s", ":", "/", "/", "s", "h", "o", "p", ".",
         "e", "x", "a", "m", "p", "l", "e", ".", "c", "o", "m", "/", "x",
         "?", "u", "t", "m", "=", "1", "#", "t", "o", "p">>,
       \* shop.example.com/products/x  (no scheme: not a URL)
       <<"s", "h", "o", "p", ".", "e", "x", "a", "m", "p", "l", "e", ".",
         "c", "o", "m", "/", "p", "r", "o", "d", "u", "c", "t", "s", "/",
         "x">>,
       \* https://shop.example.com
       <<"h", "t", "t", "p", "s", ":", "/", "/", "s", "h", "o", "p", ".",
         "e", "x", "a", "m", "p", "l", "e", ".", "c", "o", "m">> >>

UrlInputs ==
    {<<u, u>> : u \in UrlStrings}
    \cup {<<PairUrls[i], PairUrls[j]>> : i, j \in 1..Len(PairUrls)}

Applied(fn, value) == [fn |-> fn, value |-> value]

\* normalize_url_path(url1)
ApplyNormalizeUrlPath ==
    /\ output.fn = "none"
    /\ output' = Applied("normalize_url_path", normalize_url_path(input[1]))
    /\ UNCHANGED <<product, attribution, calls, writer, orchVars, holder, lpc, job,
                   committed, mergesDone, snapshot, proc, input>>

\* normalize_url_path applied to its own result
ApplyNormalizeUrlPathAgain ==
    /\ output.fn = "normalize_url_path"
    /\ IsSome(output.value)
    /\ output' = Applied("normalize_url_path twice",
                         <<output.value, normalize_url_path(Unwrap(output.value))>>)
    /\ UNCHANGED <<product, attribution, calls, writer, orchVars, holder, lpc, job,
                   committed, mergesDone, snapshot, proc, input>>

\* urls_match_product(url1, url2)
ApplyUrlsMatchProduct ==
    /\ output.fn = "none"
    /\ output' = Applied("urls_match_product", urls_match_product(input[1], input[2]))
    /\ UNCHANGED <<product, attribution, calls, writer, orchVars, holder, lpc, job,
                   committed, mergesDone, snapshot, proc, input>>

NextUrl ==
    \/ ApplyNormalizeUrlPath
    \/ ApplyNormalizeUrlPathAgain
    \/ ApplyUrlsMatchProduct

InitUrl ==
    /\ CoreInit
    /\ timeoutMs = MaxTimeoutMs
    /\ LockIdle
    /\ input \in UrlInputs
    /\ output = [fn |-> "none", value |-> <<>>]
    /\ proc = ProcIdle

SpecUrl == InitUrl /\ [][NextUrl]_vars

\* the path of a parsed URL without its empty and locale-looking segments
PathWithoutLocales(url) == CleanedSegments(PathSegments(Unwrap(UrlParse(url)).path))

WellFormedHttp(url) ==
    /\ IsSome(UrlParse(url))
    /\ Unwrap(UrlParse(url)).scheme \in {<<"h", "t", "t", "p">>, <<"h", "t", "t", "p", "s">>}

\* C15 (as claimed): two URLs whose hosts are equal after lowercasing and
\* stripping a leading "www." and whose paths are equal after the removal
\* of the locale-looking segments match, whatever their queries and
\* fragments.
C15_MatchIgnoresWwwQueryFragment ==
    (/\ output.fn = "urls_match_product"
     /\ WellFormedHttp(input[1]) /\ WellFormedHttp(input[2])
     /\ normalize_domain(input[1]) = normalize_domain(input[2])
     /\ PathWithoutLocales(input[1]) = PathWithoutLocales(input[2]))
    => output.value = TRUE

\* C16: urls_match_product(u, u) is true for every well-formed http(s) URL.
C16_MatchIsReflexive ==
    (/\ output.fn = "urls_match_product"
     /\ input[1] = input[2]
     /\ WellFormedHttp(input[1]))
    => output.value = TRUE

\* HTTPS://www.shop.example.com/en-US/products?utm=1#top compared with
\* itself
C16_Witness ==
    /\ output.fn = "urls_match_product"
    /\ input[1] = input[2]
    /\ input[1] = <<"H", "T", "T", "P", "S", ":", "/", "/", "w", "w", "w",
                    ".", "s", "h", "o", "p", ".", "e", "x", "a", "m", "p",
                    "l", "e", ".", "c", "o", "m">> \o RenderPath(<<<<"e", "n", "-", "U", "S">>, <<"p", "r", "o", "d", "u",
                                                    "c", "t", "s">>>>) \o <<
                                                                            "?",
                                                                            "u",
                                                                            "t",
                                                                            "m",
                                                                            "=",
                                                                            "1",
                                                                            "#",
                                                                            "t",
                                                                            "o",
                                                                            "p">>
    /\ output.value = TRUE

\* C17: normalize_url_path is idempotent: applied to its own result it
\* returns that result.
C17_NormalizeIdempotent ==
    output.fn = "normalize_url_path twice" => output.value[2] = output.value[1]

\* two adjacent locale-looking segments, then an empty segment (a trailing
\* slash): https://www.shop.example.com/en-US/fr_FR/?pid=1 gives
\* https://www.shop.example.com/ both times
C17_Witness ==
    /\ output.fn = "normalize_url_path twice"
    /\ input[1] = <<"h", "t", "t", "p", "s", ":", "/", "/", "w", "w", "w",
                    ".", "s", "h", "o", "p", ".", "e", "x", "a", "m", "p",
                    "l", "e", ".", "c", "o", "m">> \o RenderPath(<<<<"e", "n", "-", "U", "S">>, <<"f",
                                                                       "r",
                                                                       "_",
                                                                       "F",
                                                                       "R">>, <<>>>>) \o <<
                                                                                           "?",
                                                                                           "p",
                                                                                           "i",
                                                                                           "d",
                                                                                           "=",
                                                                                           "1">>
    /\ output.value[1] = Some(<<"h", "t", "t", "p", "s", ":", "/", "/", "w",
                                "w", "w", ".", "s", "h", "o", "p", ".", "e",
                                "x", "a", "m", "p", "l", "e", ".", "c", "o",
                                "m">> \o <<"/">>)
    /\ output.value[2] = Some(<<"h", "t", "t", "p", "s", ":", "/", "/", "w",
                                "w", "w", ".", "s", "h", "o", "p", ".", "e",
                                "x", "a", "m", "p", "l", "e", ".", "c", "o",
                                "m">> \o <<"/">>)

(***************************************************************************)
(* Price parsing (lib.rs 242-314) as a function of its argument            *)
(***************************************************************************)
\* largest numerator of a numeric price value
MaxPriceNum == 9

\* amount texts with the whole units they denote: "1,299.50", "45.00",
\* "45", "0.99", "1,000", "12.5"
AmountTexts ==
    << << <<"1", ",", "2", "9", "9", ".", "5", "0">>, 1299 >>,
       << <<"4", "5", ".", "0", "0">>, 45 >>,
       << <<"4", "5">>, 45 >>,
       << <<"0", ".", "9", "9">>, 0 >>,
       << <<"1", ",", "0", "0", "0">>, 1000 >>,
       << <<"1", "2", ".", "5">>, 12 >> >>

\* the symbols and currencies in the order A$, C$, $, euro, pound, yen,
\* rupee
SymbolTable ==
    << <<<<"A", "$">>, "AUD">>, <<<<"C", "$">>, "CAD">>, <<<<"$">>, "USD">>,
       <<<<"<euro>">>, "EUR">>, <<<<"<pound>">>, "GBP">>, <<<<"<yen>">>, "JPY">>,
       <<<<"<rupee>">>, "INR">> >>

\* "Was " (or nothing), symbol i (none for i = 0), amount text k
BuildPrice(was, i, k) ==
    (IF was THEN <<"W", "a", "s", " ">> ELSE <<>>)
    \o (IF i = 0 THEN <<>> ELSE SymbolTable[i][1])
    \o AmountTexts[k][1]

\* symbol j, amount text k, symbol i: two different symbols in one string
BuildTwoSymbols(i, j, k) == SymbolTable[j][1] \o AmountTexts[k][1] \o SymbolTable[i][1]

\* "-5.50", "$-5.50", "-0.25", "<euro>-12.5", "99999999999.9", "call us",
\* "$", "1.2.3"
OtherPriceStrings ==
    { <<"-", "5", ".", "5", "0">>,
      <<"$", "-", "5", ".", "5", "0">>,
      <<"-", "0", ".", "2", "5">>,
      <<"<euro>", "-", "1", "2", ".", "5">>,
      <<"9", "9", "9", "9", "9", "9", "9", "9", "9", "9", "9", ".", "9">>,
      PriceNoAmount,
      <<"$">>,
      <<"1", ".", "2", ".", "3">> }

PriceStrings ==
    {BuildPrice(was, i, k) :
        was \in BOOLEAN, i \in 0..Len(SymbolTable), k \in 1..Len(AmountTexts)}
    \cup {BuildTwoSymbols(i, j, k) :
             i \in 1..Len(SymbolTable), j \in 1..Len(SymbolTable), k \in {2, 3}}
    \cup OtherPriceStrings

\* numeric JSON values: integers and the fractions n/2, n/4
PriceNumbers ==
    {<<"int", n>> : n \in -MaxPriceNum..MaxPriceNum}
    \cup {<<"float", n, d>> : n \in -MaxPriceNum..MaxPriceNum, d \in {2, 4}}

PriceInputs == {Str(x) : x \in PriceStrings} \cup PriceNumbers

\* the decimal digits of a natural number
RECURSIVE NatToChars(_)
NatToChars(n) ==
    IF n < 10 THEN <<Digits[n + 1]>>
    ELSE NatToChars(n \div 10) \o <<Digits[(n % 10) + 1]>>

\* render(): "<symbol><amount>" with the symbol of the price's currency
\* and the amount in decimal notation
Render(price) ==
    LET sym == CHOOSE i \in 1..Len(SymbolTable) :
                   SymbolTable[i][2] = Unwrap(price.currency)
        n   == Unwrap(price.amount)
    IN  SymbolTable[sym][1]
        \o (IF n < 0 THEN <<"-">> \o NatToChars(-n) ELSE NatToChars(n))

\* parse_price_string(s)
ApplyParsePriceString ==
    /\ output.fn = "none"
    /\ input[1] = "str"
    /\ output' = Applied("parse_price_string", parse_price_string(input[2]))
    /\ UNCHANGED <<product, attribution, calls, writer, orchVars, holder, lpc, job,
                   committed, mergesDone, snapshot, proc, input>>

\* parse_price_string applied to the rendering of its own result
ApplyParseRendered ==
    /\ output.fn = "parse_price_string"
    /\ IsSome(output.value.amount)
    /\ output' = Applied("parse_price_string of render",
                         <<output.value, parse_price_string(Render(output.value))>>)
    /\ UNCHANGED <<product, attribution, calls, writer, orchVars, holder, lpc, job,
                   committed, mergesDone, snapshot, proc, input>>

\* parse_price(value) for a JSON string or number
ApplyParsePrice ==
    /\ output.fn = "none"
    /\ output' = Applied("parse_price", parse_price(input))
    /\ UNCHANGED <<product, attribution, calls, writer, orchVars, holder, lpc, job,
                   committed, mergesDone, snapshot, proc, input>>

NextPrice ==
    \/ ApplyParsePriceString
    \/ ApplyParseRendered
    \/ ApplyParsePrice

InitPrice ==
    /\ CoreInit
    /\ timeoutMs = MaxTimeoutMs
    /\ LockIdle
    /\ input \in PriceInputs
    /\ output = [fn |-> "none", value |-> <<>>]
    /\ proc = ProcIdle

SpecPrice == InitPrice /\ [][NextPrice]_vars

\* C18 (as claimed): parsing the rendering of a parsed price gives the same
\* amount and currency, for every amount the first parse produces.
C18_PriceRoundTrips ==
    output.fn = "parse_price_string of render" => output.value[2] = output.value[1]

\* C19: "Was" is removed, the currency is that of the first symbol in the
\* order A$, C$, $, euro, pound, yen, rupee that the string contains (USD
\* without a symbol), the symbol and the commas are removed and the amount
\* is cut to whole units.
C19_PriceStringParsing ==
    output.fn = "parse_price_string" =>
        /\ \A was \in BOOLEAN, i \in 0..Len(SymbolTable), k \in 1..Len(AmountTexts) :
              input[2] = BuildPrice(was, i, k) =>
                  output.value =
                      [amount   |-> Some(AmountTexts[k][2]),
                       currency |-> Some(IF i = 0 THEN "USD" ELSE SymbolTable[i][2])]
        /\ \A i, j \in 1..Len(SymbolTable), k \in {2, 3} :
              (i < j /\ input[2] = BuildTwoSymbols(i, j, k)) =>
                  output.value.currency = Some(SymbolTable[i][2])
        /\ input[2] = PriceWasAud =>
              output.value = [amount |-> Some(1299), currency |-> Some("AUD")]
        /\ input[2] = Price45 =>
              output.value = [amount |-> Some(45), currency |-> Some("USD")]

\* "Was A$1,299.50" has been parsed to 1299 AUD
C19_Witness ==
    /\ output.fn = "parse_price_string"
    /\ input = Str(PriceWasAud)
    /\ input[2] = BuildPrice(TRUE, 1, 1)
    /\ output.value = [amount |-> Some(1299), currency |-> Some("AUD")]

\* C20 (as claimed): a numeric price value v gives amount floor(v) and
\* currency USD.
C20_NumericPriceIsFloor ==
    (output.fn = "parse_price" /\ input[1] \in {"int", "float"}) =>
        output.value =
            [amount   |-> Some(IF input[1] = "int" THEN input[2]
                               ELSE input[2] \div input[3]),
             currency |-> Some("USD")]

(***************************************************************************)
(* The write rule of one merge_data call                                   *)
(***************************************************************************)
\* source and payload of the call a step of the merge-only specification
\* makes
StepSource == calls'[Len(calls')][1]

StepPayload == PayloadPool[calls'[Len(calls')][2]]

ScalarFields == {"product_name", "brand", "garment_type", "availability", "price"}

\* the field holds nothing: no value, and for price no amount
FieldEmpty(f) ==
    IF f = "price" THEN product.price = None \/ product.price[1].amount = None
    ELSE IF f = "image_urls" THEN product.image_urls = <<>>
    ELSE product[f] = None

\* the source of the step is of a strictly stronger tier than the source
\* the field is attributed to
StrictlyStronger(f) ==
    /\ attribution[f] # None
    /\ source_priority(StepSource) < source_priority(attribution[f][1])

\* the step wrote f: the field has the payload's value, the attribution
\* names the step's source, and f is among the fields the call reports
Wrote(f, v) ==
    /\ product'[f] = v
    /\ attribution'[f] = Some(StepSource)
    /\ writer'[f] = Len(calls')

Kept(f) ==
    /\ product'[f] = product[f]
    /\ attribution'[f] = attribution[f]
    /\ writer'[f] = writer[f]

\* C25: one call writes a scalar field and attributes it to its source if
\* and only if the payload has a usable value for it and the field is
\* empty or the source's tier is strictly stronger than the tier of the
\* current attribution; otherwise field and attribution stay as they are.
C25_ScalarWriteRule ==
    [][ \A f \in ScalarFields :
            LET v == UsableValue(StepPayload, f)
            IN  IF v # None /\ (FieldEmpty(f) \/ StrictlyStronger(f))
                THEN Wrote(f, v[1])
                ELSE Kept(f)
      ]_vars

\* after three calls: the price came from a tier-2 call; a later tier-2
\* call with another price did not replace it, and neither did a tier-1
\* call whose price has no amount; the brand offered by the first call was
\* not a string, so the second call wrote it
C25_Witness ==
    /\ Len(calls) = 3
    /\ calls[1] = <<"serpapi_google", 5>>
    /\ calls[2] = <<"serpapi_google", 2>>
    /\ calls[3] = <<"gemini_classification", 3>>
    /\ writer["price"] = 1
    /\ writer["brand"] = 2
    /\ writer["garment_type"] = 1
    /\ attribution["price"] = Some("serpapi_google")

\* C26: one call replaces image_urls and attributes it to its source if
\* and only if its list is strictly longer than the current one, or as
\* long and the override rule holds (current list empty, or strictly
\* stronger tier); a longer list wins against any tier, a shorter one
\* never.
C26_ImageWriteRule ==
    [][ LET v == UsableValue(StepPayload, "image_urls")
        IN  IF /\ v # None
               /\ \/ Len(v[1]) > Len(product.image_urls)
                  \/ /\ Len(v[1]) = Len(product.image_urls)
                     /\ (FieldEmpty("image_urls") \/ StrictlyStronger("image_urls"))
            THEN Wrote("image_urls", v[1])
            ELSE Kept("image_urls")
      ]_vars

\* a tier-0 call set two URLs, a tier-5 call replaced them by three, and a
\* later tier-0 call with two URLs did not replace those
C26_Witness ==
    /\ Len(calls) = 3
    /\ calls[1] = <<"curlcffi_gemini", 1>>
    /\ calls[2] = <<"manual", 3>>
    /\ calls[3] = <<"requests_gemini", 2>>
    /\ writer["image_urls"] = 2
    /\ attribution["image_urls"] = Some("manual")
    /\ Len(product.image_urls) = 3

(***************************************************************************)
(* The HTML product extractor (html_extractor.rs)                          *)
(*                                                                         *)
(* A document is the parsed page as the selectors of the extractor see     *)
(* it: the <img> elements, the JSON-LD scripts, the <meta> elements, the   *)
(* other <script> elements, the preload links and the text blocks, each in *)
(* document order.  What a regular expression or a substring test decides  *)
(* about an attribute is a field of the element.  The extract is a JSON    *)
(* value, and its serialized length is the length of its compact JSON      *)
(* text.                                                                   *)
(***************************************************************************)
Obj(m) == <<"obj", m>>

Num(n) == <<"int", n>>

as_object(v) == IF v[1] = "obj" THEN Some(v[2]) ELSE None

RECURSIVE Dedup(_, _)
\* the elements of s not in seen, first occurrences only, empty strings
\* dropped when skipEmpty
Dedup(s, skipEmpty) ==
    IF s = <<>> THEN <<>>
    ELSE LET n == Len(s)
             front == Dedup(SubSeq(s, 1, n - 1), skipEmpty)
             last == s[n]
         IN  IF (skipEmpty /\ last = "") \/ (\E k \in 1..Len(front) : front[k] = last)
             THEN front
             ELSE Append(front, last)

Take(s, n) == IF Len(s) > n THEN SubSeq(s, 1, n) ELSE s

RECURSIVE Flatten(_)
Flatten(ss) == IF ss = <<>> THEN <<>> ELSE Head(ss) \o Flatten(Tail(ss))

\* serde_json::to_string(v).len() for a value whose strings need no escape
RECURSIVE IntLen(_)
IntLen(n) == IF n < 10 THEN 1 ELSE 1 + IntLen(n \div 10)

RECURSIVE JsonLen(_)
RECURSIVE JsonSeqLen(_)
RECURSIVE JsonMapLen(_, _)
JsonSeqLen(s) ==
    IF s = <<>> THEN 0
    ELSE JsonLen(Head(s)) + (IF Len(s) > 1 THEN 1 ELSE 0) + JsonSeqLen(Tail(s))

JsonMapLen(m, keys) ==
    IF keys = {} THEN 0
    ELSE LET k == CHOOSE x \in keys : TRUE
         IN  Len(k) + 3 + JsonLen(m[k])
             + (IF keys # {k} THEN 1 ELSE 0) + JsonMapLen(m, keys \ {k})

JsonLen(v) ==
    CASE v[1] = "str" -> Len(v[2]) + 2
      [] v[1] = "int" -> IntLen(v[2])
      [] v[1] = "null" -> 4
      [] v[1] = "arr" -> 2 + JsonSeqLen(v[2])
      [] v[1] = "obj" -> 2 + JsonMapLen(v[2], DOMAIN v[2])

StrArr(s) == Arr([k \in 1..Len(s) |-> Str(s[k])])

\* ProductDataExtractor::new (html_extractor.rs 12-17)
token_char_ratio == 4

\* html_extractor.rs 81-83: integer division
estimate_tokens(len) == len \div token_char_ratio

\* JSON-LD @type values kept at top level and inside @graph
TopLevelTypes == {"Product", "Offer", "AggregateOffer", "ProductGroup"}

GraphTypes == {"Product", "Offer", "ProductGroup"}

\* the objects one JSON-LD script contributes; a script is None when its
\* text is blank or is not JSON
LdObjects(script) ==
    IF IsNone(script) \/ IsNone(as_object(Unwrap(script))) THEN <<>>
    ELSE LET obj == Unwrap(as_object(Unwrap(script)))
             t == AndThenStr(Get(obj, "@type"))
             graph == AndThenArray(Get(obj, "@graph"))
             KeepItem(item) ==
                 /\ IsSome(as_object(item))
                 /\ IsSome(AndThenStr(Get(item[2], "@type")))
                 /\ Unwrap(AndThenStr(Get(item[2], "@type"))) \in GraphTypes
         IN  IF IsSome(t)
             THEN IF Unwrap(t) \in TopLevelTypes THEN <<Obj(obj)>> ELSE <<>>
             ELSE IF IsSome(graph) THEN SelectSeq(Unwrap(graph), KeepItem)
             ELSE <<>>

\* the map built by inserting name -> content for the metas of one kind in
\* document order: a later element with the same name replaces an earlier
MetaMap(metas, kind) ==
    LET idx == {k \in 1..Len(metas) :
                    /\ metas[k].name # "" /\ metas[k].content # ""
                    /\ metas[k].kind = kind}
        names == {metas[k].name : k \in idx}
        LastOf(n) == CHOOSE k \in idx :
                        /\ metas[k].name = n
                        /\ \A j \in idx : metas[j].name = n => j <= k
    IN  [n \in names |-> Str(metas[LastOf(n)].content)]

\* html_extractor.rs 85-143
extract_structured_data(document) ==
    Obj("json_ld" :> Arr(Flatten([k \in 1..Len(document.ld_scripts) |->
                                     LdObjects(document.ld_scripts[k])]))
        @@ "meta_tags" :> Obj(MetaMap(document.metas, "product"))
        @@ "open_graph" :> Obj(MetaMap(document.metas, "og"))
        @@ "twitter_card" :> Obj(MetaMap(document.metas, "twitter")))

\* mutation of extract_inline_json: every script is mined
extract_inline_json_any_script(document) ==
    Flatten([k \in 1..Len(document.scripts) |-> document.scripts[k].urls])

\* html_extractor.rs 146-204: scripts without a type attribute, of at least
\* 500 characters, containing one of the state markers; urls are the image
\* URLs the three patterns find in the script, in order
extract_inline_json(document) ==
    Flatten([k \in 1..Len(document.scripts) |->
                LET s == document.scripts[k]
                IN  IF s.typed \/ s.len < 500 \/ ~s.indicator THEN <<>> ELSE s.urls])

\* contentUrl, else url, of an image object (html_extractor.rs 222-229)
ImageObjectUrl(o) ==
    OrElse(AndThenStr(Get(o, "contentUrl")), AndThenStr(Get(o, "url")))

\* the URLs of one "image" member
ImageFieldUrls(image_field) ==
    CASE image_field[1] = "str" -> <<image_field[2]>>
      [] image_field[1] = "obj" -> ImageObjectUrl(image_field[2])
      [] image_field[1] = "arr" ->
            Flatten([k \in 1..Len(image_field[2]) |->
                        LET item == image_field[2][k]
                        IN  CASE item[1] = "str" -> <<item[2]>>
                              [] item[1] = "obj" -> ImageObjectUrl(item[2])
                              [] OTHER -> <<>>])
      [] OTHER -> <<>>

\* html_extractor.rs 206-252
flatten_json_ld_images(structured_data) ==
    LET json_ld_arr == structured_data[2]["json_ld"][2]
    IN  Flatten([k \in 1..Len(json_ld_arr) |->
                    LET image == Get(json_ld_arr[k][2], "image")
                    IN  IF IsSome(image) THEN ImageFieldUrls(Unwrap(image)) ELSE <<>>])

\* html_extractor.rs 254-275; href is the link target resolved against the
\* page URL
extract_preload_images(document) ==
    LET KeepLink(link) == link.as_attr = "image" /\ link.href # "" /\ link.image_ext
        kept == SelectSeq(document.preloads, KeepLink)
    IN  [k \in 1..Len(kept) |-> kept[k].href]

\* html_extractor.rs 277-326: the texts the price pattern matched, in
\* selector order, without repetitions, at most 10
extract_price_signals(document) == Take(Dedup(document.price_texts, FALSE), 10)

\* the first of at most two elements of a breadcrumb selector whose text is
\* not empty and shorter than 300
FirstBreadcrumb(texts) ==
    LET Ok(t) == t # "" /\ Len(t) < 300
        ok == SelectSeq(Take(texts, 2), Ok)
    IN  Take(ok, 1)

\* html_extractor.rs 327-420
extract_text_content(document) ==
    LET HeadingOk(t) == t # "" /\ Len(t) < 200
        DescOk(t) == t # "" /\ Len(t) > 20 /\ Len(t) < 1000
        SpecOk(t) == t # "" /\ Len(t) > 10 /\ Len(t) < 500
    IN  Obj("title" :> Str(document.title)
            @@ "headings" :> StrArr(SelectSeq(Take(document.headings, 5), HeadingOk))
            @@ "breadcrumbs" :>
                   StrArr(Flatten([k \in 1..Len(document.breadcrumbs) |->
                                      FirstBreadcrumb(document.breadcrumbs[k])]))
            @@ "descriptions" :> StrArr(SelectSeq(document.descriptions, DescOk))
            @@ "specifications" :> StrArr(SelectSeq(document.specifications, SpecOk)))

MaxScore == 10

\* html_extractor.rs 422-511: the first 50 <img> elements; those without a
\* source, with an excluded word in the source or with a stated size under
\* 100 are dropped; the others are kept when their score is at least 2,
\* sorted by falling score (stable), at most 15
filter_product_images(document) ==
    LET KeepImg(img) == img.src # "" /\ ~img.excluded /\ ~img.small /\ img.score >= 2
        kept == SelectSeq(Take(document.imgs, 50), KeepImg)
        WithScore(sc) == LET Is(img) == img.score = sc IN SelectSeq(kept, Is)
        sorted == Flatten([k \in 1..(MaxScore + 1) |-> WithScore(MaxScore + 1 - k)])
    IN  Take(sorted, 15)

\* mutation of trim_content: a list over its limit loses its last entry only
trim_content_drop_last(value) ==
    LET DropLast(arr, limit) ==
            IF Len(arr[2]) > limit THEN Arr(SubSeq(arr[2], 1, Len(arr[2]) - 1)) ELSE arr
        content == value[2]["content"][2]
    IN  Obj([value[2] EXCEPT
                !["content"] = Obj([content EXCEPT
                    !["descriptions"] = DropLast(@, 2),
                    !["specifications"] = DropLast(@, 2)]),
                !["images"] = DropLast(@, 8)])

\* html_extractor.rs 513-541
trim_content(value) ==
    LET Truncate(arr, limit) ==
            IF Len(arr[2]) > limit THEN Arr(SubSeq(arr[2], 1, limit)) ELSE arr
        content == value[2]["content"][2]
    IN  Obj([value[2] EXCEPT
                !["content"] = Obj([content EXCEPT
                    !["descriptions"] = Truncate(@, 2),
                    !["specifications"] = Truncate(@, 2)]),
                !["images"] = Truncate(@, 8)])

\* the output map before the budget test (html_extractor.rs 19-66)
Untrimmed(url, document) ==
    LET structured_data == extract_structured_data(document)
        inline_json_images == extract_inline_json(document)
        img_tag_images == filter_product_images(document)
        all_images ==
            [k \in 1..Len(img_tag_images) |-> img_tag_images[k].src]
            \o flatten_json_ld_images(structured_data)
            \o inline_json_images
            \o extract_preload_images(document)
        unique_images == Dedup(all_images, TRUE)
        images == [k \in 1..Len(unique_images) |->
                      Obj("src" :> Str(unique_images[k]) @@ "alt" :> Str("")
                          @@ "score" :> Num(0))]
    IN  Obj("url" :> Str(url)
            @@ "structured_data" :> structured_data
            @@ "price_signals" :> StrArr(extract_price_signals(document))
            @@ "images" :> Arr(images)
            @@ "content" :> extract_text_content(document))

\* mutation of extract_product_data: the budget test is dropped
extract_product_data_no_trim(max_tokens, url, document) == Untrimmed(url, document)

\* html_extractor.rs 19-79
extract_product_data(max_tokens, url, document) ==
    LET output_value == Untrimmed(url, document)
    IN  IF estimate_tokens(JsonLen(output_value)) > max_tokens
        THEN trim_content(output_value)
        ELSE output_value

(***************************************************************************)
(* Documents and budgets of the extractor specification                    *)
(***************************************************************************)
PageUrl == "https://s.example/p/1"

Img(src, excluded, small, score) ==
    [src |-> src, excluded |-> excluded, small |-> small, score |-> score]

ImgChoices ==
    { <<>>,
      \* a gallery image after a lower-scored product image, a logo, an
      \* element without source, a tiny image and one scoring 1
      << Img("https://s.example/product/1.jpg", FALSE, FALSE, 2),
         Img("https://s.example/logo.png", TRUE, FALSE, 3),
         Img("", FALSE, FALSE, 4),
         Img("https://s.example/gallery/2.jpg", FALSE, FALSE, 5),
         Img("https://s.example/product/s.jpg", FALSE, TRUE, 4),
         Img("https://cdn.example/x.jpg", FALSE, FALSE, 1) >>,
      \* three product images, one of them twice
      << Img("https://s.example/product/1.jpg", FALSE, FALSE, 2),
         Img("https://s.example/product/3.jpg", FALSE, FALSE, 2),
         Img("https://s.example/product/1.jpg", FALSE, FALSE, 4),
         Img("https://s.example/product/4.jpg", FALSE, FALSE, 3) >> }

LdProduct ==
    Some(Obj("@type" :> Str("Product") @@ "name" :> Str("Linen Shirt")
             @@ "image" :> Arr(<< Str("https://s.example/ld/1.jpg"),
                                  Obj("url" :> Str("https://s.example/ld/2.jpg")),
                                  Obj("contentUrl" :> Str("https://s.example/ld/3.jpg")
                                      @@ "url" :> Str("https://s.example/ld/x.jpg")),
                                  Num(7),
                                  Str("https://s.example/product/1.jpg") >>)))

LdOffer ==
    Some(Obj("@type" :> Str("Offer") @@ "image" :> Str("https://s.example/ld/4.jpg")))

LdOrganization ==
    Some(Obj("@type" :> Str("Organization")
             @@ "image" :> Str("https://s.example/ld/org.png")))

LdGraph ==
    Some(Obj("@graph" :> Arr(<< Obj("@type" :> Str("Product")
                                    @@ "image" :> Obj("url" :> Str("https://s.example/ld/5.jpg"))),
                                Obj("@type" :> Str("AggregateOffer")
                                    @@ "image" :> Str("https://s.example/ld/6.jpg")),
                                Str("x") >>)))

\* a product whose description alone is longer than the smallest budget
LdLong ==
    Some(Obj("@type" :> Str("Product")
             @@ "description" :> Str("A plain long description of the product. A plain long description of the product. A plain long description of the product. A plain long description of the product. A plain long description of the product. A plain long description of the product. A plain long description of the product. A plain long description of the product. A plain long description of the product. A plain long description of the product. A plain long description of the product. A plain long description of the product.")))

LdChoices ==
    { <<>>,
      <<LdOrganization, None>>,
      <<LdProduct, LdOffer>>,
      <<LdGraph, LdLong>> }

Script(typed, len, indicator, urls) ==
    [typed |-> typed, len |-> len, indicator |-> indicator, urls |-> urls]

ScriptChoices ==
    { <<>>,
      \* no script qualifies
      << Script(TRUE, 900, TRUE, <<"https://s.example/st/t.jpg">>),
         Script(FALSE, 499, TRUE, <<"https://s.example/st/s.jpg">>),
         Script(FALSE, 900, FALSE, <<"https://s.example/st/n.jpg">>) >>,
      \* only the third script qualifies
      << Script(TRUE, 900, TRUE, <<"https://s.example/st/t.jpg">>),
         Script(FALSE, 499, TRUE, <<"https://s.example/st/s.jpg">>),
         Script(FALSE, 500, TRUE, <<"https://s.example/st/1.jpg",
                                    "https://s.example/st/2.jpg",
                                    "https://s.example/st/1.jpg">>),
         Script(FALSE, 900, FALSE, <<"https://s.example/st/n.jpg">>) >> }

Preload(as_attr, href, image_ext) ==
    [as_attr |-> as_attr, href |-> href, image_ext |-> image_ext]

PreloadChoices ==
    { <<>>,
      \* no link qualifies
      << Preload("font", "https://s.example/pre/f.png", TRUE),
         Preload("image", "", FALSE),
         Preload("image", "https://s.example/pre/2.svg", FALSE) >>,
      << Preload("image", "https://s.example/pre/1.webp", TRUE),
         Preload("font", "https://s.example/pre/f.png", TRUE),
         Preload("image", "", FALSE),
         Preload("image", "https://s.example/pre/2.svg", FALSE),
         Preload("image", "https://s.example/st/2.jpg", TRUE),
         Preload("image", "https://s.example/pre/3.png", TRUE) >> }

Meta(kind, name, content) == [kind |-> kind, name |-> name, content |-> content]

\* the page furniture: meta elements, price texts, title, headings and
\* breadcrumbs
Furniture ==
    { [metas |-> <<>>, price_texts |-> <<>>, title |-> "", headings |-> <<>>,
       breadcrumbs |-> <<>>],
      [metas |-> << Meta("og", "og:title", "Linen Shirt"),
                    Meta("og", "og:title", "Shirt"),
                    Meta("twitter", "twitter:card", "summary"),
                    Meta("product", "product:price", "45.00"),
                    Meta("other", "viewport", "width=device-width"),
                    Meta("og", "og:image", "") >>,
       price_texts |-> <<"$45.00", "Was $60.00", "$45.00">>,
       title |-> "Linen Shirt | Shop",
       headings |-> <<"Linen Shirt", "", "Details">>,
       breadcrumbs |-> << <<"", "Home Shirts">>, <<>>, <<"Home Shirts Linen">> >>] }

DescTexts ==
    << "Soft linen shirt with shell buttons.",
       "Too short",
       "Cut from washed linen, relaxed fit.",
       "Machine wash cold, line dry only.",
       "Made in a small family workshop.",
       "Ships in recycled paper packaging." >>

SpecTexts ==
    << "Fabric: 100% linen",
       "Fit: relaxed",
       "Collar: button-down",
       "Sleeve: long sleeve",
       "Origin: Portugal" >>

\* how many description and specification blocks the page has
MaxDescs == 4

MaxSpecs == 3

\* token budgets (max_tokens)
MaxBudget == 410

BudgetChoices == {95, 170, MaxBudget}

Documents ==
    { [url |-> PageUrl, imgs |-> i, ld_scripts |-> l, scripts |-> s, preloads |-> p,
       metas |-> f.metas, price_texts |-> f.price_texts, title |-> f.title,
       headings |-> f.headings, breadcrumbs |-> f.breadcrumbs,
       descriptions |-> SubSeq(DescTexts, 1, d),
       specifications |-> SubSeq(SpecTexts, 1, sp)] :
        i \in ImgChoices, l \in LdChoices, s \in ScriptChoices, p \in PreloadChoices,
        f \in Furniture, d \in 0..MaxDescs, sp \in 0..MaxSpecs }

ExtractInputs == [document : Documents, max_tokens : BudgetChoices]

\* everything but output
pureFrame == <<product, attribution, calls, writer, orchVars, holder, lpc, job,
               committed, mergesDone, snapshot, proc, input>>

\* extract_product_data(url, html) of an extractor with budget max_tokens
ApplyExtract ==
    /\ output.fn = "none"
    /\ output' = Applied("extract_product_data",
                         extract_product_data(input.max_tokens, input.document.url,
                                              input.document))
    /\ UNCHANGED pureFrame

\* trim_content on the extract that was returned
ApplyTrim ==
    /\ output.fn = "extract_product_data"
    /\ output' = Applied("trim_content", trim_content(output.value))
    /\ UNCHANGED pureFrame

\* trim_content on an extract that trim_content returned
ApplyTrimAgain ==
    /\ output.fn = "trim_content"
    /\ output' = Applied("trim_again", [before |-> output.value,
                                        after |-> trim_content(output.value)])
    /\ UNCHANGED pureFrame

NextExtract ==
    \/ ApplyExtract
    \/ ApplyTrim
    \/ ApplyTrimAgain

InitExtract ==
    /\ CoreInit
    /\ timeoutMs = MaxTimeoutMs
    /\ LockIdle
    /\ input \in ExtractInputs
    /\ output = [fn |-> "none", value |-> <<>>]
    /\ proc = ProcIdle

SpecExtract == InitExtract /\ [][NextExtract]_vars

\* parts of an extract
ExtractImages(e) == e[2]["images"][2]

ExtractDescriptions(e) == e[2]["content"][2]["descriptions"][2]

ExtractSpecifications(e) == e[2]["content"][2]["specifications"][2]

\* the extract before any trim, of the document under study
Before == Untrimmed(input.document.url, input.document)

OverBudget(e) == estimate_tokens(JsonLen(e)) > input.max_tokens

Returned == output.fn = "extract_product_data"

\* the parts of an extract the trim has no business with
OtherParts(e) ==
    <<e[2]["url"], e[2]["structured_data"], e[2]["price_signals"],
      e[2]["content"][2]["title"], e[2]["content"][2]["headings"],
      e[2]["content"][2]["breadcrumbs"]>>

C22_WithinBudget ==
    Returned => JsonLen(output.value) <= token_char_ratio * input.max_tokens

\* C23: trim_content applied to an extract that trim_content returned
\* yields that extract.
C23_TrimIdempotent ==
    output.fn = "trim_again" => output.value.after = output.value.before

\* the first application cut descriptions, specifications and images of an
\* extract that had been returned untrimmed, the second changed nothing
C23_Witness ==
    /\ output.fn = "trim_again"
    /\ ~OverBudget(Before)
    /\ Len(ExtractDescriptions(Before)) > 2
    /\ Len(ExtractSpecifications(Before)) > 2
    /\ Len(ExtractImages(Before)) > 8
    /\ Len(ExtractImages(output.value.after)) = 8
    /\ Len(ExtractDescriptions(output.value.after)) = 2

NoImgNoJsonLd == input.document.imgs = <<>> /\ input.document.ld_scripts = <<>>

\* C24 as stated: a document without <img> element and without JSON-LD
\* script gives an extract with no images, whatever else it contains.
C24_NoImgNoJsonLdNoImages ==
    Returned /\ NoImgNoJsonLd => ExtractImages(output.value) = <<>>

\* no script is a state script with image URLs, no link is an image preload
\* with one of the four extensions
NoMinedImage ==
    /\ \A k \in 1..Len(input.document.scripts) :
          LET sc == input.document.scripts[k]
          IN  sc.typed \/ sc.len < 500 \/ ~sc.indicator \/ sc.urls = <<>>
    /\ \A k \in 1..Len(input.document.preloads) :
          LET l == input.document.preloads[k]
          IN  l.as_attr # "image" \/ l.href = "" \/ ~l.image_ext

\* C24 (amended): a document without <img> element, without JSON-LD script,
\* without qualifying state script and without qualifying image preload
\* link gives an extract with no images.
C24_NoSourceNoImages ==
    Returned /\ NoImgNoJsonLd /\ NoMinedImage => ExtractImages(output.value) = <<>>

\* scripts and preload links are there, none of them qualifies
C24_Witness ==
    /\ Returned
    /\ NoImgNoJsonLd
    /\ NoMinedImage
    /\ Len(input.document.scripts) = 3
    /\ Len(input.document.preloads) = 3
    /\ input.document.descriptions # <<>>
    /\ ExtractImages(output.value) = <<>>

(***************************************************************************)
(* The Browser-TLS fetch (fetch_html_curlcffi and its proxied variant)     *)
(***************************************************************************)
\* lib.rs 893
max_redirects == 3

DefaultUa == "chrome131"

MobileUa == "mobile"

\* the URL given to the fetch and the places a server may redirect to
ShopP == <<"h", "t", "t", "p", "s", ":", "/", "/", "s", "h", "o", "p", ".", "e", "x", "a", "m", "p", "l", "e", ".", "c", "o", "m", "/", "p">>

ShopQ == <<"h", "t", "t", "p", "s", ":", "/", "/", "s", "h", "o", "p", ".", "e", "x", "a", "m", "p", "l", "e", ".", "c", "o", "m", "/", "q">>

RealP == <<"h", "t", "t", "p", "s", ":", "/", "/", "w", "w", "w", ".", "t", "h", "e", "r", "e", "a", "l", "r", "e", "a", "l", ".", "c", "o", "m", "/", "p">>

FetchUrls == {ShopP, RealP}

\* Location header values: absolute, or a path on the same host
Locations == {ShopQ, RealP, <<"/", "p">>}

\* what one request can end in: a transport error, or a status with, for
\* 3xx, a usable Location or none, and for 2xx a body that can be read or
\* not
TransportError == [kind |-> "error"]

Status(code, location, body_ok) ==
    [kind |-> "status", code |-> code, location |-> location, body_ok |-> body_ok]

Responses ==
    {TransportError, Status(200, None, TRUE), Status(200, None, FALSE),
     Status(403, None, TRUE), Status(302, None, TRUE), Status(500, None, TRUE)}
    \cup {Status(302, Some(l), TRUE) : l \in Locations}

\* Url::join of a Location value on the current URL (lib.rs 933-940)
ResolveLocation(current_url, loc_str) ==
    LET base == UrlParse(current_url)
    IN  IF IsNone(base) THEN loc_str
        ELSE IF IsSome(UrlParse(loc_str)) THEN UrlToString(Unwrap(UrlParse(loc_str)))
        ELSE IF loc_str # <<>> /\ Head(loc_str) = "/"
        THEN UrlToString([Unwrap(base) EXCEPT !.path = loc_str, !.query = None,
                                                !.fragment = None])
        ELSE loc_str

\* host.contains("therealreal.com") (lib.rs 959-962)
IsHardDomain(url) ==
    /\ IsSome(UrlParse(url))
    /\ Contains(Unwrap(UrlParse(url)).host, <<"t", "h", "e", "r", "e", "a", "l", "r", "e", "a", "l", ".", "c", "o", "m">>)

FetchStartState(url) ==
    [routine |-> "fetch", pc |-> "client", iteration |-> 0, current_url |-> url,
     log |-> <<>>, redirects |-> 0, result |-> "pending"]

Return(p, result) == [p EXCEPT !.pc = "done", !.result = result]

Request(p, ua) ==
    [p EXCEPT !.log = Append(@, [ua |-> ua, url |-> p.current_url,
                                 iteration |-> p.iteration])]

\* mutation of HandleStatus: the loop runs one iteration more
HandleStatus_one_more(p, r, fallback_ok) ==
    IF r.code >= 200 /\ r.code < 300
    THEN Return(p, IF r.body_ok THEN "some" ELSE "none")
    ELSE IF r.code >= 300 /\ r.code < 400
    THEN IF IsSome(r.location)
         THEN LET q == [p EXCEPT
                           !.current_url = ResolveLocation(p.current_url, Unwrap(r.location)),
                           !.redirects = @ + 1,
                           !.iteration = @ + 1]
              IN  \* `continue`; the loop ends after the last iteration
                  IF q.iteration > max_redirects + 1 THEN Return(q, "none") ELSE q
         ELSE Return(p, "none")
    ELSE IF IsHardDomain(p.current_url) /\ fallback_ok THEN Return(p, "some")
    ELSE Return(p, "none")

\* the part of the loop body after the status is known (lib.rs 915-973);
\* fallback_ok is what fetch_with_curl_impersonate gives
HandleStatus(p, r, fallback_ok) ==
    IF r.code >= 200 /\ r.code < 300
    THEN Return(p, IF r.body_ok THEN "some" ELSE "none")
    ELSE IF r.code >= 300 /\ r.code < 400
    THEN IF IsSome(r.location)
         THEN LET q == [p EXCEPT
                           !.current_url = ResolveLocation(p.current_url, Unwrap(r.location)),
                           !.redirects = @ + 1,
                           !.iteration = @ + 1]
              IN  \* `continue`; the loop ends after the last iteration
                  IF q.iteration > max_redirects THEN Return(q, "none") ELSE q
         ELSE Return(p, "none")
    ELSE IF IsHardDomain(p.current_url) /\ fallback_ok THEN Return(p, "some")
    ELSE Return(p, "none")

fetchFrame == <<product, attribution, calls, writer, orchVars, holder, lpc, job,
                committed, mergesDone, snapshot, input, output>>

\* the client is built; the proxied variant needs OXYLABS_PROXY_URL
\* (lib.rs 887-890, 982-995)
FetchBuildClient ==
    /\ proc.routine = "fetch" /\ proc.pc = "client"
    /\ \E built \in BOOLEAN :
          proc' = IF (input.variant = "proxy" /\ ~input.proxy_set) \/ ~built
                  THEN Return(proc, "none")
                  ELSE [proc EXCEPT !.pc = "loop"]
    /\ UNCHANGED fetchFrame

\* one iteration up to the 403 test: the request with the default emulation
\* (lib.rs 895-900)
FetchSend ==
    /\ proc.routine = "fetch" /\ proc.pc = "loop"
    /\ \E r \in Responses, fallback_ok \in BOOLEAN :
          LET p == Request(proc, DefaultUa)
          IN  proc' = IF r.kind = "error" THEN Return(p, "none")
                      ELSE IF r.code = 403 THEN [p EXCEPT !.pc = "retry"]
                      ELSE HandleStatus(p, r, fallback_ok)
    /\ UNCHANGED fetchFrame

\* the retry with the mobile User-Agent (lib.rs 901-913)
FetchRetryMobile ==
    /\ proc.routine = "fetch" /\ proc.pc = "retry"
    /\ \E r \in Responses, fallback_ok \in BOOLEAN :
          LET p == Request([proc EXCEPT !.pc = "loop"], MobileUa)
          IN  proc' = IF r.kind = "error" THEN Return(p, "none")
                      ELSE HandleStatus(p, r, fallback_ok)
    /\ UNCHANGED fetchFrame

NextFetch ==
    \/ FetchBuildClient
    \/ FetchSend
    \/ FetchRetryMobile

FetchInputs == [variant : {"direct", "proxy"}, proxy_set : BOOLEAN, url : FetchUrls]

InitFetch ==
    /\ CoreInit
    /\ timeoutMs = MaxTimeoutMs
    /\ LockIdle
    /\ input \in FetchInputs
    /\ output = [fn |-> "none", value |-> <<>>]
    /\ proc = FetchStartState(input.url)

SpecFetch == InitFetch /\ [][NextFetch]_vars

Fetching == proc.routine = "fetch"

\* the iterations whose request went to a URL taken from a Location header
FollowedRedirects == {proc.log[k].iteration : k \in 1..Len(proc.log)} \ {0}

MobileRequests == {k \in 1..Len(proc.log) : proc.log[k].ua = MobileUa}

\* C29: a fetch requests at most 3 URLs taken from a Location header; a 3xx
\* response to the last of them ends the fetch with absence, and a fetch
\* never issues more than 8 requests.
C29_AtMostThreeRedirects ==
    Fetching =>
        /\ Cardinality(FollowedRedirects) <= 3
        /\ proc.redirects > 3 => proc.pc = "done" /\ proc.result = "none"
        /\ Len(proc.log) <= 8

\* four redirects in a row: three were followed, the fourth ended the fetch
C29_Witness ==
    /\ Fetching
    /\ proc.redirects = 4
    /\ Cardinality(FollowedRedirects) = 3
    /\ proc.pc = "done"
    /\ proc.result = "none"
    /\ input.variant = "proxy"

\* C30: one fetch issues at most one request with the mobile User-Agent.
C30_OneMobileRetryPerFetch ==
    Fetching => Cardinality(MobileRequests) <= 1

(***************************************************************************)
(* The image search by title (approach_serpapi_images_title) next to other *)
(* approaches that merge into the same ScrapeState                         *)
(***************************************************************************)
\* lib.rs 1259: `if attempts > 80`
MaxAttempts == 80

\* lib.rs 1262
WaitSleepMs == 100

\* state.merge_data(&data, source) with a payload the routine built
RoutineMerge(payload, source) ==
    \E r \in {merge_data(product, attribution, payload, source)} :
        /\ product' = r.product
        /\ attribution' = r.attribution
        /\ calls' = Append(calls, <<source, 0>>)
        /\ writer' = [f \in Fields |->
                        IF \E k \in 1..Len(r.merged_fields) : r.merged_fields[k] = f
                        THEN Len(calls) + 1 ELSE writer[f]]

NotAUrl == <<"s", "h", "o", "p", ".", "e", "x", "a", "m", "p", "l", "e", ".", "c", "o", "m", "/", "p">>

\* what serpapi_search gives for the image query (lib.rs 759-773, 1276-1277)
ImageSearchResponses ==
    { None,
      Some(Obj("error" :> Str("no results"))),
      Some(Obj("images_results" :> Null)),
      Some(Obj("images_results" :> Arr(<<>>))),
      Some(Obj("images_results" :> Arr(<< Obj("link" :> Str("https://shop.example.com/p")),
                                         Obj("original" :> Num(7)),
                                         Obj("original" :> Str("y.jpg")),
                                         Obj("original" :> Str("z.jpg")) >>))) }

\* the first `original` that is a string (lib.rs 1279-1286)
FirstOriginal(images) ==
    LET hits == {k \in 1..Len(images) :
                    /\ IsSome(as_object(images[k]))
                    /\ IsSome(AndThenStr(Get(images[k][2], "original")))}
    IN  IF hits = {} THEN None
        ELSE LET k == CHOOSE i \in hits : \A j \in hits : i <= j
             IN  AndThenStr(Get(images[k][2], "original"))

TitleStartState ==
    [routine |-> "title", pc |-> "check", attempts |-> 0, checks |-> 0, sleeps |-> 0,
     requests |-> <<>>, result |-> "pending"]

titleFrame == <<orchVars, holder, lpc, job, committed, mergesDone, snapshot, input, output>>

\* mutation of TitleCheck: at the cap the search is made without a name
TitleCheck_search_anyway ==
    /\ proc.routine = "title" /\ proc.pc = "check"
    /\ LET p == [proc EXCEPT !.checks = @ + 1]
       IN  IF IsSome(product.product_name)
           THEN LET parsed == UrlParse(input.url)
                IN  IF IsNone(parsed) \/ ~input.serp_key
                    THEN proc' = [p EXCEPT !.pc = "done", !.result = "none"]
                    ELSE proc' = [p EXCEPT
                                     !.pc = "await",
                                     !.requests = Append(@, [name |-> Unwrap(product.product_name),
                                                             site |-> Unwrap(parsed).host])]
           ELSE IF p.attempts + 1 > MaxAttempts
                THEN proc' = [p EXCEPT !.attempts = @ + 1, !.pc = "await",
                                       !.requests = Append(@, [name |-> "", site |-> <<>>])]
                ELSE proc' = [p EXCEPT !.attempts = @ + 1, !.pc = "sleep"]
    /\ UNCHANGED <<product, attribution, calls, writer>>
    /\ UNCHANGED titleFrame

\* one pass of the wait loop up to its await: the product lock is taken and
\* product_name read; with a name the routine goes on to the search request
\* (lib.rs 1252-1275), without one it counts the attempt and gives up or
\* goes to sleep (lib.rs 1256-1262)
TitleCheck ==
    /\ proc.routine = "title" /\ proc.pc = "check"
    /\ LET p == [proc EXCEPT !.checks = @ + 1]
       IN  IF IsSome(product.product_name)
           THEN LET parsed == UrlParse(input.url)
                IN  IF IsNone(parsed) \/ ~input.serp_key
                    THEN proc' = [p EXCEPT !.pc = "done", !.result = "none"]
                    ELSE proc' = [p EXCEPT
                                     !.pc = "await",
                                     !.requests = Append(@, [name |-> Unwrap(product.product_name),
                                                             site |-> Unwrap(parsed).host])]
           ELSE IF p.attempts + 1 > MaxAttempts
                THEN proc' = [p EXCEPT !.attempts = @ + 1, !.pc = "done", !.result = "none"]
                ELSE proc' = [p EXCEPT !.attempts = @ + 1, !.pc = "sleep"]
    /\ UNCHANGED <<product, attribution, calls, writer>>
    /\ UNCHANGED titleFrame

\* tokio::time::sleep(100 ms) is over
TitleWake ==
    /\ proc.routine = "title" /\ proc.pc = "sleep"
    /\ proc' = [proc EXCEPT !.pc = "check", !.sleeps = @ + 1]
    /\ UNCHANGED <<product, attribution, calls, writer>>
    /\ UNCHANGED titleFrame

\* the search returned (lib.rs 1276-1288)
TitleResponse ==
    /\ proc.routine = "title" /\ proc.pc = "await"
    /\ \E resp \in ImageSearchResponses :
          LET images == IF IsNone(resp) THEN None
                        ELSE AndThenArray(Get(Unwrap(resp)[2], "images_results"))
              original == IF IsNone(images) THEN None ELSE FirstOriginal(Unwrap(images))
          IN  IF IsSome(original)
              THEN /\ RoutineMerge("image_urls" :> Arr(<<Str(Unwrap(original))>>),
                                   "serpapi_images_title")
                   /\ proc' = [proc EXCEPT !.pc = "done", !.result = "some"]
              ELSE /\ proc' = [proc EXCEPT !.pc = "done", !.result = "none"]
                   /\ UNCHANGED <<product, attribution, calls, writer>>
    /\ UNCHANGED titleFrame

\* payloads another approach merges meanwhile: with a name, without one
OtherPayloads == {1, 5}

\* merge_data of another approach
TitleOtherMerge ==
    /\ proc.routine = "title"
    /\ input.genai_key
    /\ \E i \in OtherPayloads : MergeCall("requests_gemini", i)

NextTitle ==
    \/ TitleCheck
    \/ TitleWake
    \/ TitleResponse
    \/ TitleOtherMerge

TitleInputs == [url : {ShopP, NotAUrl}, serp_key : BOOLEAN, genai_key : BOOLEAN]

InitTitle ==
    /\ CoreInit
    /\ timeoutMs = MaxTimeoutMs
    /\ LockIdle
    /\ input \in TitleInputs
    /\ output = [fn |-> "none", value |-> <<>>]
    /\ proc = TitleStartState

SpecTitle == InitTitle /\ [][NextTitle]_vars

Titling == proc.routine = "title"

TitleMerged == \E k \in 1..Len(calls) : calls[k][1] = "serpapi_images_title"

\* C27 as stated: no search request before product_name is present; at most
\* 80 checks; after 80 checks without a name no request and no merge.
C27_AtMost80Checks ==
    Titling =>
        /\ proc.requests # <<>> => IsSome(product.product_name)
        /\ proc.checks <= 80
        /\ proc.attempts >= 80 => proc.requests = <<>> /\ ~TitleMerged

\* C27 (amended): no search request before product_name is present; at most
\* 81 checks with at most 80 sleeps of 100 ms (8 s) between them; after 81
\* checks without a name the approach has returned absence with no request
\* and no merge.
C27_AtMost81Checks ==
    Titling =>
        /\ proc.requests # <<>> => IsSome(product.product_name)
        /\ TitleMerged => proc.requests # <<>>
        /\ Len(proc.requests) <= 1
        /\ proc.checks <= 81
        /\ proc.sleeps <= 80 /\ proc.sleeps * WaitSleepMs <= 8000
        /\ proc.checks <= proc.sleeps + 1
        /\ proc.attempts > 80 =>
              /\ proc.pc = "done" /\ proc.result = "none"
              /\ proc.requests = <<>> /\ ~TitleMerged

\* the name arrived during the last sleep: the 81st check found it, the
\* search was made and its image merged
C27_Witness ==
    /\ Titling
    /\ proc.checks = 81
    /\ proc.sleeps = 80
    /\ proc.attempts = 80
    /\ proc.result = "some"
    /\ TitleMerged

(***************************************************************************)
(* The three LLM calls: what they make of the response text                *)
(* (lib.rs 438-616, 620-757, 777-881)                                      *)
(***************************************************************************)
Bool(b) == <<"bool", b>>

as_bool(v) == IF v[1] = "bool" THEN Some(v[2]) ELSE None

AndThenBool(o) == IF IsSome(o) THEN as_bool(Unwrap(o)) ELSE None

\* A response text is a sequence of tokens: the triple-backtick fence, the tag json,
\* white space, the punctuation of a JSON object and its members.
Fence == <<"fence">>

JsonTag == <<"json">>

Ws == <<"ws">>

Open == <<"{">>

Close == <<"}">>

Comma == <<",">>

Member(k, v) == <<"pair", k, v>>

RECURSIVE TrimTextStart(_)
TrimTextStart(text) ==
    IF Len(text) > 0 /\ Head(text)[1] = "ws" THEN TrimTextStart(Tail(text)) ELSE text

RECURSIVE TrimTextEnd(_)
TrimTextEnd(text) ==
    IF Len(text) > 0 /\ text[Len(text)][1] = "ws"
    THEN TrimTextEnd(SubSeq(text, 1, Len(text) - 1))
    ELSE text

\* str::trim
TrimText(text) == TrimTextEnd(TrimTextStart(text))

\* lib.rs 544-555, 733-744: an opening fence, with its json tag if it has
\* one, and a closing fence are cut off and the rest is trimmed
StripFence(text) ==
    IF Len(text) > 0 /\ text[1][1] = "fence" THEN
        LET t == IF Len(text) >= 2 /\ text[2][1] = "json"
                 THEN SubSeq(text, 3, Len(text)) ELSE Tail(text)
            u == IF Len(t) > 0 /\ t[Len(t)][1] = "fence"
                 THEN SubSeq(t, 1, Len(t) - 1) ELSE t
        IN  TrimText(u)
    ELSE text

\* serde_json::from_str on a text that should hold one object: white space
\* between tokens is skipped, members are separated by single commas, and
\* anything else is a parse error (None)
from_str(text) ==
    LET t == SelectSeq(text, LAMBDA tok : tok[1] # "ws")
        n == Len(t)
        shaped == /\ n >= 2
                  /\ t[1][1] = "{"
                  /\ t[n][1] = "}"
                  /\ \/ n = 2
                     \/ /\ n % 2 = 1
                        /\ \A i \in 2..(n - 1) :
                              t[i][1] = IF i % 2 = 0 THEN "pair" ELSE ","
    IN  IF ~shaped THEN None
        ELSE LET at == {i \in 2..(n - 1) : i % 2 = 0}
                 keys == {t[i][2] : i \in at}
                 last(k) == CHOOSE i \in at :
                               /\ t[i][2] = k
                               /\ \A j \in at : t[j][2] = k => j <= i
             IN  Some(Obj([k \in keys |-> t[last(k)][3]]))

\* the text continues with white space and a closing brace
RECURSIVE ClosesNext(_)
ClosesNext(text) ==
    /\ Len(text) > 0
    /\ \/ Head(text)[1] = "}"
       \/ Head(text)[1] = "ws" /\ ClosesNext(Tail(text))

RECURSIVE RemoveTrailingCommas(_)
\* lib.rs 562-563: Regex ,(\s*[}\]]) replaced by $1 everywhere
RemoveTrailingCommas(text) ==
    IF Len(text) = 0 THEN <<>>
    ELSE IF Head(text)[1] = "," /\ ClosesNext(Tail(text))
         THEN RemoveTrailingCommas(Tail(text))
         ELSE <<Head(text)>> \o RemoveTrailingCommas(Tail(text))

\* lib.rs 557-572: the text is parsed, and a text that does not parse is
\* parsed once more after the repair
ParseWithRepair(text) ==
    LET first == from_str(text)
    IN  IF IsSome(first) THEN first ELSE from_str(RemoveTrailingCommas(text))

\* a map with the members of obj under the keys of want for which keep holds
Copy(obj, want, keep(_, _)) ==
    LET ks == {k \in want : k \in DOMAIN obj /\ keep(k, obj[k])}
    IN  [k \in ks |-> obj[k]]

\* lib.rs 596-613: the strings product_name, brand and garment_type, the
\* price whatever it is, and the list image_urls
ExtractedKeep(k, v) ==
    IF k = "price" THEN TRUE
    ELSE IF k = "image_urls" THEN v[1] = "arr"
    ELSE v[1] = "str"

ExtractedKeys == {"product_name", "brand", "price", "garment_type", "image_urls"}

\* mutation of call_gemini_for_product_extraction: a response without a
\* boolean is_product_page is taken for a product page
call_gemini_for_product_extraction_unless_false(reply) ==
    IF IsNone(reply) THEN None
    ELSE LET parsed == ParseWithRepair(StripFence(TrimText(Unwrap(reply))))
         IN  IF IsNone(parsed) \/ IsNone(as_object(Unwrap(parsed))) THEN None
             ELSE LET obj == Unwrap(parsed)[2]
                      is_product_page == AndThenBool(Get(obj, "is_product_page"))
                  IN  IF IsSome(is_product_page) /\ ~Unwrap(is_product_page)
                      THEN None
                      ELSE Some(Copy(obj, ExtractedKeys, ExtractedKeep))

\* mutation of call_gemini_for_product_extraction: availability is copied
\* as well
call_gemini_for_product_extraction_with_availability(reply) ==
    IF IsNone(reply) THEN None
    ELSE LET parsed == ParseWithRepair(StripFence(TrimText(Unwrap(reply))))
         IN  IF IsNone(parsed) \/ IsNone(as_object(Unwrap(parsed))) THEN None
             ELSE LET obj == Unwrap(parsed)[2]
                      is_product_page == AndThenBool(Get(obj, "is_product_page"))
                  IN  IF IsNone(is_product_page) \/ ~Unwrap(is_product_page)
                      THEN None
                      ELSE Some(Copy(obj, ExtractedKeys \cup {"availability"},
                                     LAMBDA k, v : k = "availability" \/ ExtractedKeep(k, v)))

\* call_gemini_for_product_extraction from the response on (lib.rs 526-616);
\* reply is the text of the first candidate, None when the request failed,
\* the status was not 2xx or the body has no such text
call_gemini_for_product_extraction(reply) ==
    IF IsNone(reply) THEN None
    ELSE LET parsed == ParseWithRepair(StripFence(TrimText(Unwrap(reply))))
         IN  IF IsNone(parsed) \/ IsNone(as_object(Unwrap(parsed))) THEN None
             ELSE LET obj == Unwrap(parsed)[2]
                      is_product_page == AndThenBool(Get(obj, "is_product_page"))
                  IN  IF IsNone(is_product_page) \/ ~Unwrap(is_product_page)
                      THEN None
                      ELSE Some(Copy(obj, ExtractedKeys, ExtractedKeep))

\* call_gemini_for_fast_classification from the response on (lib.rs
\* 711-756): fences are cut off, the text is parsed once, and the answer is
\* the garment_type string or "unsupported"
call_gemini_for_fast_classification(reply) ==
    IF IsNone(reply) THEN None
    ELSE LET parsed == from_str(StripFence(TrimText(Unwrap(reply))))
         IN  IF IsNone(parsed) THEN None
             ELSE LET gtype == AndThenStr(Get(Unwrap(parsed)[2], "garment_type"))
                  IN  Some("garment_type" :>
                              Str(IF IsSome(gtype) THEN Unwrap(gtype) ELSE "unsupported"))

ClassifiedKeys == {"name", "brand", "garment_type"}

\* call_gemini_from_serpapi from the response on (lib.rs 846-880): the
\* text is parsed as it is, once, and the strings name, brand and
\* garment_type are copied; a map without any of them is None
call_gemini_from_serpapi(reply) ==
    IF IsNone(reply) THEN None
    ELSE LET parsed == from_str(Unwrap(reply))
         IN  IF IsNone(parsed) THEN None
             ELSE LET out == Copy(Unwrap(parsed)[2], ClassifiedKeys,
                                  LAMBDA k, v : v[1] = "str")
                  IN  IF DOMAIN out = {} THEN None ELSE Some(out)

\* the members of an object, written out with a comma between them
RECURSIVE Members(_)
Members(ms) ==
    IF Len(ms) = 0 THEN <<>>
    ELSE IF Len(ms) = 1 THEN <<Head(ms)>>
    ELSE <<Head(ms), Comma>> \o Members(Tail(ms))

\* an answer about a product page, availability included
ProductMembers(flag) ==
    << Member("is_product_page", flag),
       Member("product_name", Str("Linen Shirt")),
       Member("brand", Str("Acme")),
       Member("price", Str(Price45)),
       Member("image_urls", Arr(<<Str("a.jpg")>>)),
       Member("availability", Str("in_stock")) >>

\* what the LLM may answer: a product page, not a product page, a flag that
\* is a string, no flag, a classification, a garment type, a name that is
\* not a string
ReplyBodies ==
    << ProductMembers(Bool(TRUE)),
       ProductMembers(Bool(FALSE)),
       ProductMembers(Str("true")),
       Tail(ProductMembers(Bool(TRUE))),
       << Member("name", Str("Linen Shirt")), Member("brand", Str("Acme")),
          Member("garment_type", Str("upper")) >>,
       << Member("garment_type", Str("shoes")) >>,
       << Member("name", Num(3)) >> >>

\* how the answer is written
ReplyFormats ==
    {"plain", "fenced json", "fenced", "trailing comma", "fenced trailing comma",
     "two trailing commas", "cut short"}

ReplyText(b, f) ==
    LET ms == Members(ReplyBodies[b])
    IN  IF f = "plain" THEN <<Open>> \o ms \o <<Close>>
        ELSE IF f = "fenced json"
             THEN <<Fence, JsonTag, Ws, Open>> \o ms \o <<Close, Ws, Fence>>
        ELSE IF f = "fenced"
             THEN <<Fence, Ws, Open>> \o ms \o <<Close, Ws, Fence, Ws>>
        ELSE IF f = "trailing comma"
             THEN <<Open>> \o ms \o <<Comma, Ws, Close>>
        ELSE IF f = "fenced trailing comma"
             THEN <<Fence, JsonTag, Ws, Open>> \o ms \o <<Comma, Close, Ws, Fence>>
        ELSE IF f = "two trailing commas"
             THEN <<Open>> \o ms \o <<Comma, Comma, Close>>
        ELSE <<Open>> \o ms

\* the answers a call may get: none, or a text
Replies == {<<>>} \cup {<<b, f>> : b \in 1..Len(ReplyBodies), f \in ReplyFormats}

\* the text of the first candidate, if there is one
ReplyOf(sent) == IF Len(sent) = 0 THEN None ELSE Some(ReplyText(sent[1], sent[2]))

(***************************************************************************)
(* clean_product_url and the shopping search (approach_serpapi_google)     *)
(***************************************************************************)
\* lib.rs 358: the query keys that are kept
KeptKeys ==
    { <<"p", "i", "d">>,
      <<"p", "r", "o", "d", "u", "c", "t", "i", "d">>,
      <<"p", "r", "o", "d", "u", "c", "t", "_", "i", "d">>,
      <<"i", "d">>,
      <<"i", "t", "e", "m">>,
      <<"i", "t", "e", "m", "i", "d">>,
      <<"p", "r", "o", "d", "u", "c", "t", "_", "n", "o">>,
      <<"p", "r", "o", "d", "u", "c", "t", "s", "_", "i", "d">>,
      <<"m", "a", "i", "n", "_", "p", "a", "g", "e">> }

RECURSIVE FormDecode(_)
\* form_urlencoded decoding of a key or value: '+' and the escape %20 stand
\* for a space (no other escape occurs in the inputs of this model)
FormDecode(s) ==
    IF s = <<>> THEN <<>>
    ELSE IF Head(s) = "+" THEN <<" ">> \o FormDecode(Tail(s))
    ELSE IF Len(s) >= 3 /\ SubSeq(s, 1, 3) = <<"%", "2", "0">>
    THEN <<" ">> \o FormDecode(SubSeq(s, 4, Len(s)))
    ELSE <<Head(s)>> \o FormDecode(Tail(s))

RECURSIVE UrlEncode(_)
\* urlencoding::encode for texts of letters, digits, '-', '_', '.', '~' and
\* spaces: a space becomes %20
UrlEncode(s) ==
    IF s = <<>> THEN <<>>
    ELSE (IF Head(s) = " " THEN <<"%", "2", "0">> ELSE <<Head(s)>>) \o UrlEncode(Tail(s))

\* Url::query_pairs: the non-empty pieces between '&', split at the first '='
QueryPairs(query) ==
    LET NonEmpty(piece) == piece # <<>>
        pieces == SelectSeq(Split(query, "&"), NonEmpty)
    IN  [k \in 1..Len(pieces) |->
            LET eq == FirstOf(pieces[k], {"="})
            IN  <<FormDecode(SubSeq(pieces[k], 1, eq - 1)),
                  FormDecode(SubSeq(pieces[k], eq + 1, Len(pieces[k])))>>]

\* lib.rs 352-381
clean_product_url(url) ==
    LET parsed == UrlParse(url)
    IN  IF IsNone(parsed) THEN url
        ELSE LET u == Unwrap(parsed)
                 IsKept(pair) == to_lowercase(pair[1]) \in KeptKeys
                 kept == IF IsSome(u.query)
                         THEN SelectSeq(QueryPairs(Unwrap(u.query)), IsKept)
                         ELSE <<>>
                 new_q == Join([k \in 1..Len(kept) |->
                                   UrlEncode(kept[k][1]) \o <<"=">> \o UrlEncode(kept[k][2])],
                               "&")
             IN  UrlToString([u EXCEPT !.query = IF kept # <<>> THEN Some(new_q)
                                                 ELSE None])

\* product URLs given to the shopping search
ShoppingUrls ==
    { <<"h", "t", "t", "p", "s", ":", "/", "/", "s", "h", "o", "p", ".", "e", "x", "a", "m", "p", "l", "e", ".", "c", "o", "m", "/", "p", "r", "o", "d", "u", "c", "t", "s", "/", "x">>,
      <<"h", "t", "t", "p", "s", ":", "/", "/", "s", "h", "o", "p", ".", "e", "x", "a", "m", "p", "l", "e", ".", "c", "o", "m", "/", "p", "r", "o", "d", "u", "c", "t", "s", "/", "x", "?", "u", "t", "m", "=", "1">>,
      <<"h", "t", "t", "p", "s", ":", "/", "/", "s", "h", "o", "p", ".", "e", "x", "a", "m", "p", "l", "e", ".", "c", "o", "m", "/", "e", "n", "-", "U", "S", "/", "p", "r", "o", "d", "u", "c", "t", "s", "/", "x", "?", "u", "t", "m", "=", "1">>,
      <<"h", "t", "t", "p", "s", ":", "/", "/", "S", "h", "o", "p", ".", "e", "x", "a", "m", "p", "l", "e", ".", "c", "o", "m", "/", "p", "r", "o", "d", "u", "c", "t", "s", "/", "x", "?", "P", "I", "D", "=", "a", "+", "b", "&", "u", "t", "m", "=", "1", "#", "t", "o", "p">>,
      <<"s", "h", "o", "p", ".", "e", "x", "a", "m", "p", "l", "e", ".", "c", "o", "m", "/", "p">> }

\* what serpapi_search gives for the shopping query (lib.rs 759-773)
ShoppingSearchResponses ==
    { None,
      Some(Obj("error" :> Str("no results"))),
      Some(Obj("shopping_results" :> Null)),
      Some(Obj("shopping_results" :> Arr(<<>>))),
      Some(Obj("shopping_results" :>
               Arr(<< Obj("title" :> Str("Linen Shirt - Acme")
                          @@ "price" :> Str(Price45)),
                      Obj("title" :> Str("Other")) >>))),
      Some(Obj("shopping_results" :>
               Arr(<< Obj("extracted_price" :> <<"float", 91, 2>>) >>))),
      Some(Obj("shopping_results" :>
               Arr(<< Obj("title" :> Str("") @@ "price" :> Str(Price45)) >>))) }

\* mutation of NoShoppingResults: a value that is not a list counts as
\* absent too
NoShoppingResults_not_array(result) ==
    \/ IsNone(result)
    \/ IsNone(AndThenArray(Get(Unwrap(result)[2], "shopping_results")))

\* lib.rs 1173-1177: result.as_ref().and_then(|r| r.get("shopping_results"))
\* .is_none()
NoShoppingResults(result) ==
    \/ IsNone(result)
    \/ IsNone(Get(Unwrap(result)[2], "shopping_results"))

\* the data built from the first shopping result (lib.rs 1190-1199)
ShoppingData(first) ==
    LET title == AndThenStr(Get(first[2], "title"))
        price == OrElse(Get(first[2], "price"), Get(first[2], "extracted_price"))
        name_part == IF IsSome(title) THEN ("product_name" :> Str(Unwrap(title))) ELSE <<>>
        price_part == IF IsSome(price) THEN ("price" :> Unwrap(price)) ELSE <<>>
    IN  name_part @@ price_part

ShoppingStartState ==
    [routine |-> "shopping", pc |-> "start", queries |-> <<>>, responses |-> <<>>,
     llm |-> 0, sent |-> <<>>, payload |-> None, result |-> "pending"]

\* mutation of ShoppingFinish: the classification is requested whatever the
\* first result holds
ShoppingFinish_always_classify(p, result) ==
    LET list == IF IsNone(result) THEN None
                ELSE AndThenArray(Get(Unwrap(result)[2], "shopping_results"))
    IN  IF IsNone(list) \/ Unwrap(list) = <<>> \/ IsNone(as_object(Unwrap(list)[1]))
        THEN /\ proc' = [p EXCEPT !.pc = "done", !.result = "none"]
             /\ UNCHANGED <<product, attribution, calls, writer>>
        ELSE LET first == Unwrap(list)[1]
             IN  /\ RoutineMerge(ShoppingData(first), "serpapi_google")
                 /\ proc' = IF input.genai_key
                            THEN [p EXCEPT !.pc = "classify", !.llm = @ + 1]
                            ELSE [p EXCEPT !.pc = "done", !.result = "some"]

\* lib.rs 1186-1211 with the final `result`: the first shopping result is
\* merged, and with a title the classification is called, which asks the
\* LLM unless the title is empty or GENAI_API_KEY is missing (lib.rs 783-787)
ShoppingFinish(p, result) ==
    LET list == IF IsNone(result) THEN None
                ELSE AndThenArray(Get(Unwrap(result)[2], "shopping_results"))
    IN  IF IsNone(list) \/ Unwrap(list) = <<>> \/ IsNone(as_object(Unwrap(list)[1]))
        THEN /\ proc' = [p EXCEPT !.pc = "done", !.result = "none"]
             /\ UNCHANGED <<product, attribution, calls, writer>>
        ELSE LET first == Unwrap(list)[1]
                 title == AndThenStr(Get(first[2], "title"))
             IN  /\ RoutineMerge(ShoppingData(first), "serpapi_google")
                 /\ proc' = IF /\ IsSome(title)
                               /\ Unwrap(title) # ""
                               /\ input.genai_key
                            THEN [p EXCEPT !.pc = "classify", !.llm = @ + 1]
                            ELSE [p EXCEPT !.pc = "done", !.result = "some"]

\* up to the await of the first search (lib.rs 1161-1171)
ShoppingStart ==
    /\ proc.routine = "shopping" /\ proc.pc = "start"
    /\ proc' = IF ~input.serp_key
               THEN [proc EXCEPT !.pc = "done", !.result = "none"]
               ELSE [proc EXCEPT !.pc = "await1",
                                 !.queries = <<clean_product_url(input.url)>>]
    /\ UNCHANGED <<product, attribution, calls, writer>>
    /\ UNCHANGED titleFrame

\* the first search returned (lib.rs 1171-1185)
ShoppingFirstResponse ==
    /\ proc.routine = "shopping" /\ proc.pc = "await1"
    /\ \E result \in ShoppingSearchResponses :
          LET p == [proc EXCEPT !.responses = Append(@, result)]
              cleaned == proc.queries[1]
              normalized == normalize_url_path(cleaned)
          IN  IF /\ NoShoppingResults(result)
                 /\ IsSome(normalized)
                 /\ Unwrap(normalized) # cleaned
              THEN /\ proc' = [p EXCEPT !.pc = "await2",
                                        !.queries = Append(@, Unwrap(normalized))]
                   /\ UNCHANGED <<product, attribution, calls, writer>>
              ELSE ShoppingFinish(p, result)
    /\ UNCHANGED titleFrame

\* the second search returned
ShoppingSecondResponse ==
    /\ proc.routine = "shopping" /\ proc.pc = "await2"
    /\ \E result \in ShoppingSearchResponses :
          ShoppingFinish([proc EXCEPT !.responses = Append(@, result)], result)
    /\ UNCHANGED titleFrame

\* call_gemini_from_serpapi returned (lib.rs 1203-1209)
ShoppingClassified ==
    /\ proc.routine = "shopping" /\ proc.pc = "classify"
    /\ \E sent \in Replies :
          LET classified == call_gemini_from_serpapi(ReplyOf(sent))
          IN  /\ IF IsSome(classified)
                 THEN RoutineMerge(Unwrap(classified), "gemini_classification")
                 ELSE UNCHANGED <<product, attribution, calls, writer>>
              /\ proc' = [proc EXCEPT !.pc = "done", !.result = "some",
                                      !.sent = sent, !.payload = classified]
    /\ UNCHANGED titleFrame

\* merge_data of another approach
ShoppingOtherMerge ==
    /\ proc.routine = "shopping"
    /\ input.genai_key
    /\ \E i \in OtherPayloads : MergeCall("requests_gemini", i)

NextShopping ==
    \/ ShoppingStart
    \/ ShoppingFirstResponse
    \/ ShoppingSecondResponse
    \/ ShoppingClassified
    \/ ShoppingOtherMerge

ShoppingInputs == [url : ShoppingUrls, serp_key : BOOLEAN, genai_key : BOOLEAN]

InitShopping ==
    /\ CoreInit
    /\ timeoutMs = MaxTimeoutMs
    /\ LockIdle
    /\ input \in ShoppingInputs
    /\ output = [fn |-> "none", value |-> <<>>]
    /\ proc = ShoppingStartState

SpecShopping == InitShopping /\ [][NextShopping]_vars

InShopping == proc.routine = "shopping"

\* the response carries no member shopping_results, or there is no response
LacksShoppingResults(resp) ==
    resp = None \/ "shopping_results" \notin DOMAIN resp[1][2]

\* C28: the shopping search issues at most two search requests; the first
\* asks for clean_product_url(url), and a second is issued only after a
\* first response without shopping_results and asks for
\* normalize_url_path(clean_product_url(url)), which then differs from the
\* first query.
C28_AtMostTwoSearches ==
    InShopping =>
        /\ Len(proc.queries) <= 2
        /\ Len(proc.responses) <= Len(proc.queries)
        /\ proc.queries # <<>> => proc.queries[1] = clean_product_url(input.url)
        /\ Len(proc.queries) = 2 =>
              /\ LacksShoppingResults(proc.responses[1])
              /\ normalize_url_path(clean_product_url(input.url)) = Some(proc.queries[2])
              /\ proc.queries[2] # proc.queries[1]

\* the first search had no shopping_results, the second, for the
\* normalized URL, had, and its first result was merged
C28_Witness ==
    /\ InShopping
    /\ Len(proc.queries) = 2
    /\ Len(proc.responses) = 2
    /\ proc.responses[1] # None
    /\ proc.result = "some"
    /\ \E k \in 1..Len(calls) : calls[k][1] = "serpapi_google"

(***************************************************************************)
(* What later merges leave alone                                           *)
(***************************************************************************)
\* C35: a merge_data call on a complete record leaves it complete, and no
\* call clears a field that has a value, removes the amount of the price or
\* makes a non-empty image_urls empty.
C35_CompletenessMonotone ==
    [][ /\ AllRequiredPresent(product) => AllRequiredPresent(product')
        /\ \A f \in {"product_name", "brand", "garment_type", "availability"} :
              product[f] # None => product'[f] # None
        /\ (product.price # None /\ product.price[1].amount # None)
              => (product'.price # None /\ product'.price[1].amount # None)
        /\ product.image_urls # <<>> => product'.image_urls # <<>>
      ]_vars

\* a record made complete by a tier-5 call is still complete after two
\* tier-0 calls, one with a price without amount and a null name, one with
\* an empty image list
C35_Witness ==
    /\ Len(calls) = 3
    /\ calls[1] = <<"manual", 1>>
    /\ calls[2] = <<"curlcffi_gemini", 3>>
    /\ calls[3] = <<"requests_gemini", 4>>
    /\ AllRequiredPresent(product)
    /\ writer["brand"] = 1

\* the field is attributed to a tier-0 source
HeldByTier0(f) == attribution[f] # None /\ attribution[f][1] \in Tier0

\* C38: a field other than image_urls that is attributed to a tier-0 source
\* keeps its value and its attribution in every later merge_data call, and
\* has_strong_source stays true.
C38_Tier0FieldIsFinal ==
    [][ \A f \in ScalarFields :
            HeldByTier0(f) =>
                /\ product'[f] = product[f]
                /\ attribution'[f] = attribution[f]
                /\ \E g \in Fields : attribution'[g] # None /\ attribution'[g][1] \in Tier0
      ]_vars

\* the fields of a tier-0 call survived a call of the other tier-0 source
\* and a tier-1 call, both with values of their own
C38_Witness ==
    /\ Len(calls) = 3
    /\ calls[1] = <<"curlcffi_gemini", 1>>
    /\ calls[2] = <<"requests_gemini", 2>>
    /\ calls[3] = <<"gemini_classification", 4>>
    /\ \A f \in {"product_name", "brand", "price", "garment_type"} :
          writer[f] = 1 /\ attribution[f] = Some("curlcffi_gemini")
    /\ writer["availability"] = 2

(***************************************************************************)
(* clean_product_url as a function of its own                              *)
(***************************************************************************)
\* URLs put together from a base, query pieces and a fragment
CleanBases ==
    { [text |-> <<"h", "t", "t", "p", "s", ":", "/", "/", "s", "h", "o", "p", ".", "e", "x", "a", "m", "p", "l", "e", ".", "c", "o", "m", "/", "p", "r", "o", "d", "u", "c", "t", "s", "/", "x">>,
       cleaned |-> <<"h", "t", "t", "p", "s", ":", "/", "/", "s", "h", "o", "p", ".", "e", "x", "a", "m", "p", "l", "e", ".", "c", "o", "m", "/", "p", "r", "o", "d", "u", "c", "t", "s", "/", "x">>],
      [text |-> <<"H", "T", "T", "P", ":", "/", "/", "S", "h", "o", "p", ".", "E", "x", "a", "m", "p", "l", "e", ".", "c", "o", "m">>,
       cleaned |-> <<"h", "t", "t", "p", ":", "/", "/", "s", "h", "o", "p", ".", "e", "x", "a", "m", "p", "l", "e", ".", "c", "o", "m", "/">>] }

\* query pieces with the key and the value they stand for
QueryPieces ==
    << [text |-> <<"p", "i", "d", "=", "1">>, key |-> <<"p", "i", "d">>, value |-> <<"1">>],
       [text |-> <<"I", "D", "=", "7">>, key |-> <<"I", "D">>, value |-> <<"7">>],
       [text |-> <<"u", "t", "m", "=", "1">>, key |-> <<"u", "t", "m">>, value |-> <<"1">>],
       [text |-> <<"i", "t", "e", "m", "=", "a", "+", "b">>, key |-> <<"i", "t", "e", "m">>, value |-> <<"a", " ", "b">>],
       [text |-> <<"p", "i", "d", "x", "=", "2">>, key |-> <<"p", "i", "d", "x">>, value |-> <<"2">>],
       [text |-> <<"M", "a", "i", "n", "_", "P", "a", "g", "e">>, key |-> <<"M", "a", "i", "n", "_", "P", "a", "g", "e">>, value |-> <<>>] >>

MaxPairs == 2

RECURSIVE PieceSeqs(_)
PieceSeqs(n) ==
    IF n = 0 THEN {<<>>}
    ELSE LET shorter == PieceSeqs(n - 1)
         IN  shorter \cup {Append(q, k) : q \in {x \in shorter : Len(x) = n - 1},
                                          k \in 1..Len(QueryPieces)}

Fragments == {None, Some(<<"t", "o", "p">>)}

CleanInputs ==
    [base : CleanBases, pieces : PieceSeqs(MaxPairs), fragment : Fragments]

\* the text of the URL
CleanInputText(i) ==
    i.base.text
    \o (IF i.pieces = <<>> THEN <<>>
        ELSE <<"?">> \o Join([k \in 1..Len(i.pieces) |-> QueryPieces[i.pieces[k]].text], "&"))
    \o (IF IsSome(i.fragment) THEN <<"#">> \o Unwrap(i.fragment) ELSE <<>>)

ApplyCleanProductUrl ==
    /\ output.fn = "none"
    /\ output' = Applied("clean_product_url", clean_product_url(CleanInputText(input)))
    /\ UNCHANGED pureFrame

\* clean_product_url on its own result
ApplyCleanAgain ==
    /\ output.fn = "clean_product_url"
    /\ output' = Applied("clean_again", clean_product_url(output.value))
    /\ UNCHANGED pureFrame

NextClean ==
    \/ ApplyCleanProductUrl
    \/ ApplyCleanAgain

InitClean ==
    /\ CoreInit
    /\ timeoutMs = MaxTimeoutMs
    /\ LockIdle
    /\ input \in CleanInputs
    /\ output = [fn |-> "none", value |-> <<>>]
    /\ proc = ProcIdle

SpecClean == InitClean /\ [][NextClean]_vars

\* the pieces of the input whose key is on the list, in their order
KeptPieces ==
    LET OnList(k) == to_lowercase(QueryPieces[k].key) \in KeptKeys
    IN  SelectSeq(input.pieces, OnList)

\* the result has the base of the input and, as its query, the kept pieces
CleanedQueryOk ==
    LET u == Unwrap(UrlParse(output.value))
        pairs == IF IsSome(u.query) THEN QueryPairs(Unwrap(u.query)) ELSE <<>>
    IN  /\ UrlToString([u EXCEPT !.query = None, !.fragment = None]) = input.base.cleaned
        /\ pairs = [k \in 1..Len(KeptPieces) |->
                      <<QueryPieces[KeptPieces[k]].key, QueryPieces[KeptPieces[k]].value>>]

\* C34: the result of clean_product_url has no fragment, and its query
\* holds the parameters whose lowercased key is on the list, all of them
\* and no other, in their original order.
C34_CleanDropsFragment ==
    output.fn = "clean_product_url" =>
        /\ IsSome(UrlParse(output.value))
        /\ CleanedQueryOk
        /\ Unwrap(UrlParse(output.value)).fragment = None

(***************************************************************************)
(* Order and attribution inside the shopping search                        *)
(***************************************************************************)
\* the title of the first shopping result of the last response, None when
\* there is no such result or it has no title string
FirstShoppingTitle ==
    IF Len(proc.responses) = 0 THEN None
    ELSE LET result == proc.responses[Len(proc.responses)]
             list == IF IsNone(result) THEN None
                     ELSE AndThenArray(Get(Unwrap(result)[2], "shopping_results"))
         IN  IF IsNone(list) \/ Len(Unwrap(list)) = 0 \/ IsNone(as_object(Unwrap(list)[1]))
             THEN None
             ELSE AndThenStr(Get(Unwrap(list)[1][2], "title"))

\* the classification answered with a name
ClassifiedWithName ==
    IsSome(proc.payload) /\ "name" \in DOMAIN Unwrap(proc.payload)

\* C40: in the shopping search every merge tagged gemini_classification
\* comes after a merge tagged serpapi_google; the LLM is asked for the
\* classification only when the first shopping result has a title; and
\* once a classification with a name is merged, product_name is attributed
\* to gemini_classification or to a tier-0 source.
C40_ShoppingThenClassification ==
    InShopping =>
        /\ \A k \in 1..Len(calls) :
              calls[k][1] = "gemini_classification" =>
                  \E j \in 1..(k - 1) : calls[j][1] = "serpapi_google"
        /\ proc.llm > 0 => IsSome(FirstShoppingTitle)
        /\ proc.llm <= 1
        /\ ClassifiedWithName =>
              /\ attribution["product_name"] # None
              /\ attribution["product_name"][1] \in {"gemini_classification"} \cup Tier0

\* the title of the first result was merged as serpapi_google, and the
\* classification's name then took product_name over
C40_Witness ==
    /\ InShopping
    /\ ClassifiedWithName
    /\ Len(calls) = 2
    /\ calls[1][1] = "serpapi_google"
    /\ calls[2][1] = "gemini_classification"
    /\ writer["product_name"] = 2
    /\ attribution["product_name"] = Some("gemini_classification")
    /\ product.product_name = Some("Linen Shirt")

(***************************************************************************)
(* The approaches that ask the LLM about the page or the URL: the four     *)
(* full extractions and gemini_fast (lib.rs 1100-1154, 1291-1301)          *)
(***************************************************************************)
LlmApproaches == Tier0 \cup {"gemini_fast"}

LlmStartState ==
    [routine |-> "llm", pc |-> "start", llm |-> 0, sent |-> <<>>, payload |-> None,
     result |-> "pending"]

\* mutation of ApproachStart: the request is sent whether or not
\* GENAI_API_KEY is set
ApproachStart_without_key ==
    /\ proc.routine = "llm" /\ proc.pc = "start"
    /\ \E fetched \in IF input.approach = "gemini_fast" THEN {TRUE} ELSE BOOLEAN :
          proc' = IF ~fetched
                  THEN [proc EXCEPT !.pc = "done", !.result = "none"]
                  ELSE [proc EXCEPT !.pc = "await", !.llm = @ + 1]
    /\ UNCHANGED <<product, attribution, calls, writer>>
    /\ UNCHANGED titleFrame

\* the page is fetched (the full extractions only), and the call asks the
\* LLM when GENAI_API_KEY is set (lib.rs 443, 624)
ApproachStart ==
    /\ proc.routine = "llm" /\ proc.pc = "start"
    /\ \E fetched \in IF input.approach = "gemini_fast" THEN {TRUE} ELSE BOOLEAN :
          proc' = IF ~fetched \/ ~input.genai_key
                  THEN [proc EXCEPT !.pc = "done", !.result = "none"]
                  ELSE [proc EXCEPT !.pc = "await", !.llm = @ + 1]
    /\ UNCHANGED <<product, attribution, calls, writer>>
    /\ UNCHANGED titleFrame

\* the LLM answered or the request failed: a result is merged under the
\* approach's tag, absence ends the approach (lib.rs 1107-1110, 1297-1299)
ApproachReply ==
    /\ proc.routine = "llm" /\ proc.pc = "await"
    /\ \E sent \in Replies :
          LET result == IF input.approach = "gemini_fast"
                        THEN call_gemini_for_fast_classification(ReplyOf(sent))
                        ELSE call_gemini_for_product_extraction(ReplyOf(sent))
          IN  IF IsSome(result)
              THEN /\ RoutineMerge(Unwrap(result), input.approach)
                   /\ proc' = [proc EXCEPT !.pc = "done", !.result = "some",
                                           !.sent = sent, !.payload = result]
              ELSE /\ UNCHANGED <<product, attribution, calls, writer>>
                   /\ proc' = [proc EXCEPT !.pc = "done", !.result = "none",
                                           !.sent = sent]
    /\ UNCHANGED titleFrame

\* merge_data of the shopping search, which needs SERPAPI_KEY
ApproachOtherMerge ==
    /\ proc.routine = "llm"
    /\ input.serp_key
    /\ Len(calls) < MaxMerges
    /\ \E i \in 1..Len(ShoppingResults) : RoutineMerge(ShoppingResults[i], "serpapi_google")
    /\ UNCHANGED <<proc, titleFrame>>

NextLlm ==
    \/ ApproachStart
    \/ ApproachReply
    \/ ApproachOtherMerge

LlmInputs == [approach : LlmApproaches, serp_key : BOOLEAN, genai_key : BOOLEAN]

InitLlm ==
    /\ CoreInit
    /\ timeoutMs = MaxTimeoutMs
    /\ LockIdle
    /\ input \in LlmInputs
    /\ output = [fn |-> "none", value |-> <<>>]
    /\ proc = LlmStartState

SpecLlm == InitLlm /\ [][NextLlm]_vars

(***************************************************************************)
(* The image search for the URL (approach_serpapi_images_url)              *)
(***************************************************************************)
\* what serpapi_search gives for the URL query
UrlImageSearchResponses ==
    { None,
      Some(Obj("images_results" :> Null)),
      Some(Obj("images_results" :> Arr(<<>>))),
      Some(Obj("images_results" :>
               Arr(<< Obj("link" :> Str(ShopQ) @@ "original" :> Str("q.jpg")),
                      Obj("link" :> Str(ShopP) @@ "original" :> Str("")),
                      Obj("link" :> Str(ShopP) @@ "original" :> Str("x.jpg")),
                      Obj("link" :> Str(ShopP) @@ "original" :> Str("z.jpg")) >>))),
      Some(Obj("images_results" :>
               Arr(<< Obj("original" :> Str("x.jpg")),
                      Obj("link" :> Str(RealP) @@ "original" :> Str("r.jpg")) >>))) }

\* lib.rs 1229-1239: the first image with a link and an original whose link
\* is the product's URL
FirstMatching(url, images) ==
    LET text(img, k) ==
            IF IsNone(as_object(img)) THEN ""
            ELSE LET s == AndThenStr(Get(img[2], k))
                 IN  IF IsSome(s) THEN Unwrap(s) ELSE ""
        first(hits) ==
            IF hits = {} THEN None
            ELSE Some(text(images[CHOOSE i \in hits : \A j \in hits : i <= j],
                           "original"))
    IN  first({k \in 1..Len(images) :
                  /\ Len(text(images[k], "link")) > 0
                  /\ Len(text(images[k], "original")) > 0
                  /\ urls_match_product(url, text(images[k], "link"))})

ImagesUrlStartState ==
    [routine |-> "images_url", pc |-> "start", requests |-> <<>>, result |-> "pending"]

\* lib.rs 1219-1226: without SERPAPI_KEY the approach returns before the
\* search
ImagesUrlStart ==
    /\ proc.routine = "images_url" /\ proc.pc = "start"
    /\ proc' = IF ~input.serp_key
               THEN [proc EXCEPT !.pc = "done", !.result = "none"]
               ELSE [proc EXCEPT !.pc = "await", !.requests = <<input.url>>]
    /\ UNCHANGED <<product, attribution, calls, writer>>
    /\ UNCHANGED titleFrame

\* the search returned (lib.rs 1226-1241)
ImagesUrlResponse ==
    /\ proc.routine = "images_url" /\ proc.pc = "await"
    /\ \E resp \in UrlImageSearchResponses :
          \E images \in {IF IsNone(resp) THEN None
                         ELSE AndThenArray(Get(Unwrap(resp)[2], "images_results"))} :
          \E original \in {IF IsNone(images) THEN None
                           ELSE FirstMatching(input.url, Unwrap(images))} :
              IF IsSome(original)
              THEN /\ RoutineMerge("image_urls" :> Arr(<<Str(Unwrap(original))>>),
                                   "serpapi_images_url")
                   /\ proc' = [proc EXCEPT !.pc = "done", !.result = "some"]
              ELSE /\ proc' = [proc EXCEPT !.pc = "done", !.result = "none"]
                   /\ UNCHANGED <<product, attribution, calls, writer>>
    /\ UNCHANGED titleFrame

\* merge_data of another approach
ImagesUrlOtherMerge ==
    /\ proc.routine = "images_url"
    /\ input.genai_key
    /\ \E i \in OtherPayloads : MergeCall("requests_gemini", i)

NextImagesUrl ==
    \/ ImagesUrlStart
    \/ ImagesUrlResponse
    \/ ImagesUrlOtherMerge

ImagesUrlInputs == [url : {ShopP, RealP}, serp_key : BOOLEAN, genai_key : BOOLEAN]

InitImagesUrl ==
    /\ CoreInit
    /\ timeoutMs = MaxTimeoutMs
    /\ LockIdle
    /\ input \in ImagesUrlInputs
    /\ output = [fn |-> "none", value |-> <<>>]
    /\ proc = ImagesUrlStartState

(***************************************************************************)
(* The eight approaches, one at a time, each with merges of another one    *)
(***************************************************************************)
InitApproaches ==
    \/ InitLlm
    \/ InitShopping
    \/ InitImagesUrl
    \/ InitTitle

NextApproaches ==
    \/ NextLlm
    \/ NextShopping
    \/ NextImagesUrl
    \/ NextTitle

SpecApproaches == InitApproaches /\ [][NextApproaches]_vars

(***************************************************************************)
(* Properties of the LLM calls and of the approaches' key checks           *)
(***************************************************************************)
\* the answer has the member is_product_page with the value true
HasTrueFlag(sent) ==
    /\ Len(sent) > 0
    /\ \E i \in 1..Len(ReplyBodies[sent[1]]) :
          LET m == ReplyBodies[sent[1]][i]
          IN  m[2] = "is_product_page" /\ m[3][1] = "bool" /\ m[3][2]

\* the step in which a full extraction handles the answer to its request
ExtractionAnswered ==
    /\ proc.routine = "llm" /\ input.approach \in Tier0
    /\ proc.pc = "await" /\ proc'.pc = "done"

\* C31: a full-extraction approach that gets an answer without
\* is_product_page = true (absent, not a boolean, or false) returns absence
\* and changes neither the record nor the attribution, whatever else the
\* answer carries.
C31_NoMergeWithoutProductPage ==
    [][(ExtractionAnswered /\ ~HasTrueFlag(proc'.sent)) =>
           /\ proc'.result = "none"
           /\ UNCHANGED <<product, attribution, calls, writer>>]_vars

\* the answer had every field but said is_product_page = false, and the
\* record still holds only what the shopping search merged before
C31_Witness ==
    /\ proc.routine = "llm" /\ input.approach = "curlcffi_gemini"
    /\ proc.pc = "done" /\ proc.llm = 1
    /\ proc.sent = <<2, "fenced json">>
    /\ proc.result = "none"
    /\ Len(calls) = 1 /\ calls[1][1] = "serpapi_google"
    /\ IsNone(product.brand) /\ product.image_urls = <<>>

\* requests sent to the LLM by the approach under study
LlmRequests == IF proc.routine \in {"llm", "shopping"} THEN proc.llm ELSE 0

\* requests sent to the search API by the approach under study
SearchRequests ==
    IF proc.routine = "shopping" THEN Len(proc.queries)
    ELSE IF proc.routine \in {"images_url", "title"} THEN Len(proc.requests)
    ELSE 0

\* merge_data was called with one of the tags
Tagged(tags) == \E k \in 1..Len(calls) : calls[k][1] \in tags

\* C32: without GENAI_API_KEY no LLM request is sent and nothing is merged
\* under a tier-0 tag, gemini_fast or gemini_classification; without
\* SERPAPI_KEY no search request is sent and nothing is merged under
\* serpapi_google, serpapi_images_url or serpapi_images_title.
C32_NoKeyNoCall ==
    /\ ~input.genai_key =>
          /\ LlmRequests = 0
          /\ ~Tagged(Tier0 \cup {"gemini_fast", "gemini_classification"})
    /\ ~input.serp_key =>
          /\ SearchRequests = 0
          /\ ~Tagged({"serpapi_google", "serpapi_images_url", "serpapi_images_title"})

\* the shopping search merged a result with a title and, GENAI_API_KEY
\* missing, returned without asking for the classification
C32_Witness ==
    /\ proc.routine = "shopping"
    /\ input.serp_key /\ ~input.genai_key
    /\ proc.pc = "done" /\ proc.result = "some"
    /\ FirstShoppingTitle = Some("Linen Shirt - Acme")
    /\ Tagged({"serpapi_google"})
    /\ proc.llm = 0

\* an LLM call of the approach under study got a text as its answer and the
\* approach has handled it
TextAnswered ==
    /\ proc.routine \in {"llm", "shopping"}
    /\ proc.pc = "done"
    /\ Len(proc.sent) > 0

\* what the approach's call makes of the answer b written as f
Handled(b, f) ==
    IF proc.routine = "shopping" THEN call_gemini_from_serpapi(ReplyOf(<<b, f>>))
    ELSE IF input.approach = "gemini_fast"
         THEN call_gemini_for_fast_classification(ReplyOf(<<b, f>>))
         ELSE call_gemini_for_product_extraction(ReplyOf(<<b, f>>))

\* C33: each of the three LLM calls gives for an answer inside fences, with
\* or without the json tag, and for an answer with a trailing comma what it
\* gives for the plain answer, and gives absence for an answer that still
\* does not parse after one removal of trailing commas.
C33_FencesAndOneRepair ==
    TextAnswered =>
        /\ proc.sent[2] \in {"fenced json", "fenced", "trailing comma",
                             "fenced trailing comma"} =>
              proc.payload = Handled(proc.sent[1], "plain")
        /\ proc.sent[2] \in {"two trailing commas", "cut short"} =>
              proc.payload = None

\* C39: no approach hands merge_data an availability, so the record's
\* availability is absent and unattributed in every state, also after an
\* LLM answer that names one.
C39_AvailabilityAbsent ==
    /\ IsNone(product.availability)
    /\ attribution["availability"] = None
    /\ outcome.record.availability = None
    /\ (proc.routine \in {"llm", "shopping"} /\ IsSome(proc.payload)) =>
           "availability" \notin DOMAIN Unwrap(proc.payload)

\* a full extraction merged an answer that said in_stock: name, brand,
\* price and image are in the record, the availability is not
C39_Witness ==
    /\ proc.routine = "llm" /\ input.approach = "requests_gemini"
    /\ proc.pc = "done" /\ proc.result = "some"
    /\ proc.sent = <<1, "plain">>
    /\ Tagged({"requests_gemini"})
    /\ attribution["brand"] = Some("requests_gemini")
    /\ product.image_urls = <<"a.jpg">>
    /\ IsNone(product.availability)

(***************************************************************************)
(* The record returned after an early stop                                 *)
(***************************************************************************)
\* C36: when the race loop ended by itself (before the hard deadline), the
\* record read at the end, after the aborts and whatever the approaches
\* merged meanwhile, is complete; and an Ok result then has none of name,
\* brand, price and image missing: success is true.
C36_EarlyStopReturnsComplete ==
    (pc = "done" /\ raceResult = "Ok") =>
        /\ outcome.record = product
        /\ AllRequiredPresent(outcome.record)
        /\ outcome.kind = "Ok" =>
              /\ scrape_url(outcome).success
              /\ ~scrape_url(outcome).name_missing
              /\ ~scrape_url(outcome).brand_missing
              /\ ~scrape_url(outcome).price_missing
              /\ ~scrape_url(outcome).image_missing

\* the loop stopped on the soft path before the hard deadline, with the
\* shopping search and the image search done; the remaining tasks were
\* aborted and the Ok result is complete
C36_Witness ==
    /\ pc = "done"
    /\ raceResult = "Ok"
    /\ stopPath = "soft"
    /\ now < timeoutMs
    /\ outcome.kind = "Ok"
    /\ scrape_url(outcome).success
    /\ \A t \in Tasks : aborted[t]
    /\ task["serpapi_google"] = "done"
    /\ task["serpapi_images_url"] = "done"
    /\ \E t \in Tasks : task[t] = "cancelled"

(***************************************************************************)
(* Locking with requests, grants and aborts                                *)
(*                                                                         *)
(* The lock-level model again, with the request for the product lock apart *)
(* from its grant, with the end of the race loop, the aborts and the final *)
(* read of scrape_product_rust (lib.rs 1362-1398).  proc holds the tasks   *)
(* that have called merge_data, the tasks abort() was called on and the    *)
(* tasks that were dropped holding a guard.                                *)
(***************************************************************************)
LocksStartState == [routine |-> "locks", called |-> {}, aborted |-> {}, dropped |-> {}]

lockRest == <<product, attribution, committed, snapshot, calls, writer, orchVars,
              input, output>>

\* the approach calls merge_data, once: the task asks for the lock of
\* product (lib.rs 96)
MergeCalled(m, source, i) ==
    /\ proc.routine = "locks"
    /\ lpc[m] = "idle"
    /\ m \notin proc.called
    /\ proc' = [proc EXCEPT !.called = @ \cup {m}]
    /\ job' = [job EXCEPT ![m] = <<source, i>>]
    /\ lpc' = [lpc EXCEPT ![m] = "lockP"]
    /\ mergesDone' = mergesDone + 1
    /\ UNCHANGED <<holder, lockRest>>

\* `self.product.lock().await` returns the guard
MergeLockProduct(m) ==
    /\ proc.routine = "locks"
    /\ lpc[m] = "lockP"
    /\ holder.product = "none"
    /\ holder' = [holder EXCEPT !.product = m]
    /\ lpc' = [lpc EXCEPT ![m] = "lockA"]
    /\ UNCHANGED <<job, mergesDone, proc, lockRest>>

\* timeout(..) elapses while the loop is suspended, in its sleep or in a
\* lock(): the loop future is dropped (lib.rs 1363, 1379)
PollTimeout ==
    /\ proc.routine = "locks"
    /\ lpc["poll"] \in {"idle", "hs_lock"}
    /\ lpc' = [lpc EXCEPT !["poll"] = "timed_out"]
    /\ UNCHANGED <<holder, job, mergesDone, proc, lockRest>>

\* `for handle in &handles { handle.abort(); }`, then the orchestrator asks
\* for the lock of product (lib.rs 1392-1398)
AbortTasks ==
    /\ proc.routine = "locks"
    /\ lpc["poll"] \in {"returned", "timed_out"}
    /\ proc' = [proc EXCEPT !.aborted = Mergers \cup {"title"}]
    /\ lpc' = [lpc EXCEPT !["poll"] = "final_lock"]
    /\ UNCHANGED <<holder, job, mergesDone, lockRest>>

\* mutation of Cancel: the guard of a dropped task stays locked
Cancel_keeps_guard(p) ==
    /\ proc.routine = "locks"
    /\ p \in proc.aborted
    /\ lpc[p] \in {"idle", "lockP", "lockA"}
    /\ lpc' = [lpc EXCEPT ![p] = "cancelled"]
    /\ proc' = [proc EXCEPT !.dropped = IF holder.product = p THEN @ \cup {p} ELSE @]
    /\ UNCHANGED <<holder, job, mergesDone, lockRest>>

\* an aborted task is dropped at the await it is suspended in: in its
\* request or sleep, waiting for the product lock, or inside merge_data
\* waiting for the attribution lock, whose product guard is dropped with
\* the future (lib.rs 96-97)
Cancel(p) ==
    /\ proc.routine = "locks"
    /\ p \in proc.aborted
    /\ lpc[p] \in {"idle", "lockP", "lockA"}
    /\ lpc' = [lpc EXCEPT ![p] = "cancelled"]
    /\ holder' = [holder EXCEPT !.product = IF @ = p THEN "none" ELSE @]
    /\ proc' = [proc EXCEPT !.dropped = IF holder.product = p THEN @ \cup {p} ELSE @]
    /\ UNCHANGED <<job, mergesDone, lockRest>>

\* the wait loop of the title search asks again after its sleep, unless the
\* task was aborted meanwhile
TitleLockAgain ==
    /\ proc.routine = "locks"
    /\ "title" \notin proc.aborted
    /\ TitleLockProduct

\* `state.product.lock().await` of the final read returns the guard
FinalLockProduct ==
    /\ proc.routine = "locks"
    /\ lpc["poll"] = "final_lock"
    /\ holder.product = "none"
    /\ holder' = [holder EXCEPT !.product = "poll"]
    /\ lpc' = [lpc EXCEPT !["poll"] = "final_read"]
    /\ UNCHANGED <<job, mergesDone, proc, lockRest>>

\* `.clone()`: the record is copied and the guard dropped
FinalClone ==
    /\ proc.routine = "locks"
    /\ lpc["poll"] = "final_read"
    /\ holder' = [holder EXCEPT !.product = "none"]
    /\ lpc' = [lpc EXCEPT !["poll"] = "done"]
    /\ UNCHANGED <<job, mergesDone, proc, lockRest>>

\* what the merging tasks merge: the payloads with a numeric price and with
\* a price record, which together make a complete record; the first under
\* a tier-0 tag or the tag of the classification, the second under the tag
\* of the shopping search
FairLockJobs ==
    [m1 |-> {<<"curlcffi_gemini", 2>>, <<"gemini_classification", 2>>},
     m2 |-> {<<"serpapi_google", 4>>}]

\* the steps that run while a task is being polled: they end without a
\* suspension
LockBodies ==
    \/ \E m \in Mergers : MergeWriteProduct(m)
    \/ \E m \in Mergers : MergeWriteAttribution(m)
    \/ \E m \in Mergers : MergeEnd(m)
    \/ PollIsComplete
    \/ PollHasStrongSource
    \/ TitleRead
    \/ AbortTasks
    \/ FinalClone

NextLockFair ==
    \/ \E m \in Mergers : \E job_m \in FairLockJobs[m] : MergeCalled(m, job_m[1], job_m[2])
    \/ \E m \in Mergers : MergeLockProduct(m)
    \/ \E m \in Mergers : MergeLockAttribution(m)
    \/ PollLockProduct
    \/ PollLockAttribution
    \/ TitleLockAgain
    \/ FinalLockProduct
    \/ PollTimeout
    \/ \E p \in Mergers \cup {"title"} : Cancel(p)
    \/ LockBodies

InitLockFair ==
    /\ CoreInit
    /\ timeoutMs = MaxTimeoutMs
    /\ LockIdle
    /\ input = <<>>
    /\ output = [fn |-> "none", value |-> <<>>]
    /\ proc = LocksStartState

\* The runtime polls a task that can run, so a body step that is possible
\* is taken.  tokio's Mutex hands the lock to its waiters in the order of
\* their requests, so a waiter is not passed over forever: a grant that is
\* possible again and again is made.  An aborted task that stays suspended
\* is dropped.  Nothing is assumed of the calls of merge_data or of the
\* timeout.
FairSpecLock ==
    /\ InitLockFair
    /\ [][NextLockFair]_vars
    /\ WF_vars(LockBodies)
    /\ \A p \in Mergers \cup {"title"} : WF_vars(Cancel(p))
    /\ \A m \in Mergers : SF_vars(MergeLockProduct(m))
    /\ \A m \in Mergers : SF_vars(MergeLockAttribution(m))
    /\ SF_vars(PollLockProduct)
    /\ SF_vars(PollLockAttribution)
    /\ SF_vars(TitleLockAgain)
    /\ SF_vars(FinalLockProduct)

\* the task waits for the lock
WaitsProduct(p) ==
    IF p \in Mergers THEN lpc[p] = "lockP"
    ELSE IF p = "title" THEN lpc[p] = "idle"
    ELSE lpc[p] \in {"idle", "final_lock"}

WaitsAttribution(p) ==
    IF p \in Mergers THEN lpc[p] = "lockA" ELSE p = "poll" /\ lpc[p] = "hs_lock"

\* the future that asked for the lock was dropped: the task was aborted,
\* or the race loop was cut by the timeout
Withdrawn(p) == lpc[p] \in {"cancelled", "timed_out"}

\* the lock order: merge_data holds the attribution lock only inside the
\* product lock, and every other accessor holds one lock at a time
LockOrder ==
    /\ \A m \in Mergers : holder.field_attribution = m => holder.product = m
    /\ \A r \in Readers : ~(holder.product = r /\ holder.field_attribution = r)

\* C37 as stated: the lock order holds and every request for a lock is
\* granted, aborts included.
C37_EveryRequestGranted ==
    /\ []LockOrder
    /\ \A m \in Mergers :
          (WaitsProduct(m) \/ WaitsAttribution(m)) ~>
              (holder.product = m /\ holder.field_attribution = m)
    /\ \A r \in Readers : WaitsProduct(r) ~> (holder.product = r)
    /\ WaitsAttribution("poll") ~> (holder.field_attribution = "poll")

\* C37 (amended): the lock order holds, and every request for a lock is
\* granted unless the requesting future is dropped first (abort of the
\* task, timeout of the race loop); the orchestrator's request for the
\* final read is always granted.
C37_LocksAreGranted ==
    /\ []LockOrder
    /\ \A m \in Mergers :
          (WaitsProduct(m) \/ WaitsAttribution(m)) ~>
              ((holder.product = m /\ holder.field_attribution = m) \/ Withdrawn(m))
    /\ \A r \in Readers :
          WaitsProduct(r) ~> (holder.product = r \/ Withdrawn(r))
    /\ WaitsAttribution("poll") ~>
          (holder.field_attribution = "poll" \/ Withdrawn("poll"))
    /\ (lpc["poll"] = "final_lock") ~> (lpc["poll"] = "final_read")

\* the final read holds the product lock after a task was dropped inside
\* merge_data, where it held the product guard and waited for the
\* attribution lock
C37_Witness ==
    /\ proc.routine = "locks"
    /\ lpc["poll"] = "final_read"
    /\ holder.product = "poll"
    /\ proc.dropped # {}
    /\ \E m \in Mergers : lpc[m] = "cancelled" /\ m \in proc.dropped

====
